---- MODULE Spec2Model ----
(***************************************************************************)
(* Tarot_Robot: the asynchronous job front door (local_web.py), and the    *)
(* worker process that owns the language model (rpc_server.py, llm_ask.py).*)
(*                                                                         *)
(* Two specifications share this module.  Spec is the Front Door process:  *)
(* HTTP handler threads (submit, poll), one background thread per job and  *)
(* the job table.  WorkerSpec is the worker process: one handler thread    *)
(* per RPC connection, the lazily loaded model and the two locks.          *)
(***************************************************************************)
EXTENDS Integers, Sequences, FiniteSets, TLC

\* ---------------------------------------------------------------- bounds
MaxChars == 2       \* characters of the text in a framed object
NumCalls == 2       \* calls of rpc_call_tarot followed from end to end
MaxJobs == 2        \* job ids that uuid4 hands out in one run
NumHandlers == 1    \* HTTP handler threads alive at the same time
MaxTicks == 1       \* how often the wall clock advances
NumConn == 3        \* RPC connections handled concurrently by the worker

JobIds == 1..MaxJobs
Handlers == 1..NumHandlers
Conns == 1..NumConn
CallIds == 1..NumCalls

\* ------------------------------------------------------ Python's None
None == <<>>
Some(v) == <<v>>

\* ------------------------------------------------------------- strings
\* A string is l blanks, then n characters of text `tok' that neither
\* starts nor ends with a blank, then r blanks.  n = 0 is a blank string.
Str(l, tok, n, r) == [l |-> l, tok |-> tok, n |-> n, r |-> r]
EmptyStr == Str(0, "", 0, 0)
Missing == [absent |-> TRUE]

\* str.strip()
strip(s) == IF s.n = 0 THEN EmptyStr ELSE Str(0, s.tok, s.n, 0)
\* len()
len(s) == s.l + s.n + s.r

\* dict.get(key, "") followed by str()
get(payload, key) ==
    IF payload[key] = Missing THEN EmptyStr ELSE payload[key]

ALLOWED_MODES == {"general", "love", "career", "money"}
WordLen == [general |-> 7, love |-> 4, career |-> 6, money |-> 5, bogus |-> 5]
ModeWord(w) == Str(0, w, WordLen[w], 0)
AllowedModeStrs == {ModeWord(w) : w \in ALLOWED_MODES}

MinQuestion == 3
MaxText == 5000
ttl_seconds == 3600

\* (mutation of _validate_submit: the question is measured before it is
\* trimmed)
_validate_submit_untrimmed(payload) ==
    LET mode == strip(get(payload, "mode"))
        question == get(payload, "question")
        information == strip(get(payload, "information"))
    IN  IF mode \notin AllowedModeStrs
          THEN <<FALSE, "mode must be one of: general/love/career/money">>
        ELSE IF len(question) < MinQuestion
          THEN <<FALSE, "question too short">>
        ELSE IF len(question) > MaxText \/ len(information) > MaxText
          THEN <<FALSE, "text too long">>
        ELSE <<TRUE, "">>

\* _validate_submit: <<ok, err>>
_validate_submit(payload) ==
    LET mode == strip(get(payload, "mode"))
        question == strip(get(payload, "question"))
        information == strip(get(payload, "information"))
    IN  IF mode \notin AllowedModeStrs
          THEN <<FALSE, "mode must be one of: general/love/career/money">>
        ELSE IF len(question) < MinQuestion
          THEN <<FALSE, "question too short">>
        ELSE IF len(question) > MaxText \/ len(information) > MaxText
          THEN <<FALSE, "text too long">>
        ELSE <<TRUE, "">>

\* clean_payload of do_POST
clean_payload(payload) ==
    [mode |-> strip(get(payload, "mode")),
     question |-> strip(get(payload, "question")),
     information |-> strip(get(payload, "information"))]

\* ------------------------------------------------ request bodies tried
Obj(m, q, i) == [kind |-> "object", mode |-> m, question |-> q, information |-> i]
NotJson == [kind |-> "notjson"]
NonObject == [kind |-> "nonobject"]

ValidBodies ==
    { Obj(ModeWord("career"), Str(0, "q", MaxText, 0), Str(0, "i", MaxText, 0)),
      Obj(Str(1, "career", WordLen["career"], 1), Str(1, "q", MaxText, 2), Str(2, "i", MaxText, 1)) }

BadBodies ==
    { NotJson, NonObject,
      Obj(ModeWord("bogus"), Str(0, "q", 8, 0), EmptyStr),
      Obj(Missing, Str(0, "q", 8, 0), EmptyStr),
      Obj(ModeWord("love"), Missing, EmptyStr),
      Obj(ModeWord("love"), Str(1, "q", MinQuestion - 1, 1), EmptyStr),
      Obj(ModeWord("money"), Str(0, "q", MaxText + 1, 0), EmptyStr),
      Obj(ModeWord("general"), Str(0, "q", MinQuestion, 0), Str(0, "i", MaxText + 1, 0)) }

Bodies == ValidBodies \cup BadBodies
\* the bodies tried against both validations: every mode word, bare and
\* padded; questions around the minimum length, bare and padded; the
\* information field empty, absent or padded
Pads == {0, 1}
SubmitInputs ==
    Bodies
    \cup { Obj(Str(p, w, WordLen[w], p), Str(p, "q", n, p), i) :
              w \in ALLOWED_MODES \cup {"bogus"}, p \in Pads,
              n \in {0, MinQuestion - 1, MinQuestion},
              i \in {EmptyStr, Missing, Str(1, "i", 1, 1)} }

\* the valid bodies whose fields carry surrounding blanks
PaddedBodies == {b \in ValidBodies : b.mode.l > 0}

\* ======================================================================
\*                        FRONT DOOR  (local_web.py)
\* ======================================================================
VARIABLES
    JOBS,        \* keys of the job table; key j maps to the dict object job[j]
    job,         \* the job dict objects (they outlive their table entry)
    JOBS_LOCK,   \* Free or the thread holding the lock
    clock,       \* time.time(), seconds
    issued,      \* how many uuid4 ids have been drawn
    hpc, hreq, hjid, hnow, hpay, href, hview, hresp,   \* HTTP handler threads
    wpc, wres, wexc,                                   \* background job threads
    kpc, kpay, ksock, kpeer, kexc, kres, kwrote, kread, \* calls of rpc_call_tarot
    kcalls       \* how often rpc_call_tarot was called for the job

\* one call of rpc_call_tarot: its position, payload, socket, the program at
\* the other end, the exception it raises or the object it returns, and the
\* frames it wrote and read
kvars == <<kpc, kpay, ksock, kpeer, kexc, kres, kwrote, kread, kcalls>>
fdvars == <<JOBS, job, JOBS_LOCK, clock, issued,
            hpc, hreq, hjid, hnow, hpay, href, hview, hresp, wpc, wres, wexc, kvars>>
hlocals == <<hreq, hjid, hnow, hpay, href, hview, hresp>>

\* the worker process (rpc_server.py, llm_ask.py)
VARIABLES
    _TOKENIZER,      \* None or the tokenizer instance
    _MODEL,          \* None or the model instance
    _MODEL_LOCK,     \* Free or the connection thread holding it
    _GENERATE_LOCK,  \* Free or the connection thread holding it
    tokLoads,        \* AutoTokenizer.from_pretrained calls that returned
    modelLoads,      \* AutoModelForCausalLM.from_pretrained calls that returned
    evalDone,        \* model instances on which eval() has returned
    cpc, creq, cmodel, ctok, cexc, cresp,   \* connection handler threads
    csock,           \* the handler's socket: "none", "open" or "closed"
    crecvd,          \* request frames that recv_msg returned on the connection
    cwire,           \* response frames that send_msg wrote on the connection
    casked,          \* calls of ask_tarot made for the connection
    cbroken          \* TRUE once a sendall on the connection has failed

\* one reader of one frame: recv_msg in the worker, or the receiving half of
\* rpc_call_tarot in the Front Door
VARIABLES
    fside,      \* "server": recv_msg reads; "client": rpc_call_tarot reads
    fobj,       \* the object the peer put into the frame
    fcut,       \* how many bytes of the frame the peer sent before closing
    fstream,    \* the bytes sent and not read yet
    fbuf,       \* recvall: buf
    fneed,      \* recvall: n
    fpc,        \* position of the reader
    fres,       \* the object returned
    ferr,       \* the exception raised
    felapsed,   \* seconds since rpc_call_tarot was entered
    freads      \* calls of conn.recv that returned data

fvars == <<fside, fobj, fcut, fstream, fbuf, fneed, fpc, fres, ferr, felapsed, freads>>

\* the connection as the handler thread sees it
cconn == <<csock, crecvd, cwire, casked, cbroken>>
wkvars == <<_TOKENIZER, _MODEL, _MODEL_LOCK, _GENERATE_LOCK, tokLoads, modelLoads,
            evalDone, cpc, creq, cmodel, ctok, cexc, cresp, cconn>>
wkglobals == <<_TOKENIZER, _MODEL, _MODEL_LOCK, _GENERATE_LOCK, tokLoads, modelLoads, evalDone>>
clocals == <<creq, cmodel, ctok, cexc, cresp>>

vars == <<fdvars, wkvars, fvars>>

Free == <<>>
Http(h) == <<"http", h>>
Bg(j) == <<"job", j>>

NoReq == [kind |-> "none"]
NoResp == [code |-> 0]
NoPayload == [mode |-> EmptyStr, question |-> EmptyStr, information |-> EmptyStr]
Unborn == [status |-> "unborn", payload |-> NoPayload, result |-> None,
           created_at |-> None, started_at |-> None, finished_at |-> None]
NoView == [status |-> "unread", result |-> None, created_at |-> None,
           started_at |-> None, finished_at |-> None]

FDInit ==
    /\ JOBS = {}
    /\ job = [j \in JobIds |-> Unborn]
    /\ JOBS_LOCK = Free
    /\ clock = 0
    /\ issued = 0
    /\ hpc = [h \in Handlers |-> "idle"]
    /\ hreq = [h \in Handlers |-> NoReq]
    /\ hjid = [h \in Handlers |-> 0]
    /\ hnow = [h \in Handlers |-> 0]
    /\ hpay = [h \in Handlers |-> NoPayload]
    /\ href = [h \in Handlers |-> None]
    /\ hview = [h \in Handlers |-> NoView]
    /\ hresp = [h \in Handlers |-> NoResp]
    /\ wpc = [j \in JobIds |-> "unborn"]
    /\ wres = [j \in JobIds |-> None]
    /\ wexc = [j \in JobIds |-> None]
    /\ kpc = [k \in Conns |-> "idle"]
    /\ kpay = [k \in Conns |-> NoReq]
    /\ ksock = [k \in Conns |-> "none"]
    /\ kpeer = [k \in Conns |-> "none"]
    /\ kexc = [k \in Conns |-> None]
    /\ kres = [k \in Conns |-> None]
    /\ kwrote = [k \in Conns |-> 0]
    /\ kread = [k \in Conns |-> 0]
    /\ kcalls = [k \in Conns |-> 0]

\* the wall clock advances, each time by just more than the retention window
TickStep == ttl_seconds + 1

Tick ==
    /\ clock < MaxTicks * TickStep
    /\ clock' = clock + TickStep
    /\ UNCHANGED <<JOBS, job, JOBS_LOCK, issued, hpc, hlocals, wpc, wres, wexc>>
    /\ UNCHANGED <<kvars, wkvars>>
    /\ UNCHANGED fvars

\* the wall clock advances by the retention window exactly, or (from a
\* multiple of the window) by one second: records reach the ages 3599, 3600
\* and 3601
TickBy(d) ==
    /\ d \in {1, ttl_seconds}
    /\ d = 1 => clock % ttl_seconds = 0
    /\ clock + d <= MaxTicks * TickStep
    /\ clock' = clock + d
    /\ UNCHANGED <<JOBS, job, JOBS_LOCK, issued, hpc, hlocals, wpc, wres, wexc>>
    /\ UNCHANGED <<kvars, wkvars>>
    /\ UNCHANGED fvars

\* send_json
send_json(code, obj) == [code |-> code, body |-> obj]

\* ------------------------------------------------ POST /api/submit
\* (mutation of uuid4: the generator repeats itself)
uuid4_repeated == IF issued = 0 THEN 1 ELSE issued

\* uuid.uuid4().hex: an id that was never drawn before
uuid4 == issued + 1

\* do_POST up to `now = time.time()': read and parse the body, validate it,
\* build clean_payload, draw the job id and read the clock.
\*   body is not JSON            -> json.loads raises, caught: 400
\*   body is JSON, not an object -> payload.get raises AttributeError inside
\*                                  _validate_submit, outside the try: the
\*                                  handler thread dies without a response
SubmitRecv(h, body) ==
    /\ hpc[h] = "idle"
    /\ hreq' = [hreq EXCEPT ![h] = body]
    /\ CASE body.kind = "notjson" ->
              /\ hresp' = [hresp EXCEPT ![h] =
                     send_json(400, [ok |-> FALSE, error |-> "invalid json"])]
              /\ hpc' = [hpc EXCEPT ![h] = "done"]
              /\ UNCHANGED <<hjid, hnow, hpay, issued>>
         [] body.kind = "nonobject" ->
              /\ hpc' = [hpc EXCEPT ![h] = "crashed"]
              /\ UNCHANGED <<hresp, hjid, hnow, hpay, issued>>
         [] body.kind = "object" /\ ~_validate_submit(body)[1] ->
              /\ hresp' = [hresp EXCEPT ![h] =
                     send_json(400, [ok |-> FALSE, error |-> _validate_submit(body)[2]])]
              /\ hpc' = [hpc EXCEPT ![h] = "done"]
              /\ UNCHANGED <<hjid, hnow, hpay, issued>>
         [] body.kind = "object" /\ _validate_submit(body)[1] ->
              /\ issued < MaxJobs
              /\ hpay' = [hpay EXCEPT ![h] = clean_payload(body)]
              /\ hjid' = [hjid EXCEPT ![h] = uuid4]
              /\ issued' = issued + 1
              /\ hnow' = [hnow EXCEPT ![h] = clock]
              /\ hpc' = [hpc EXCEPT ![h] = "s_lock"]
              /\ UNCHANGED hresp
    /\ UNCHANGED <<JOBS, job, JOBS_LOCK, clock, href, hview, wpc, wres, wexc>>
    /\ UNCHANGED <<kvars, wkvars>>
    /\ UNCHANGED fvars

\* (mutation of _cleanup_jobs: `if now - created_at >= ttl_seconds')
_cleanup_jobs_inclusive(table, now, ttl) ==
    {k \in table : ~(now - job[k].created_at[1] >= ttl)}

\* _cleanup_jobs(now, ttl) applied to a table: the keys that stay
_cleanup_jobs(table, now, ttl) ==
    {k \in table : ~(now - job[k].created_at[1] > ttl)}

\* the record that do_POST inserts
NewJob(payload, now) ==
    [status |-> "pending", payload |-> payload, result |-> None,
     created_at |-> Some(now), started_at |-> None, finished_at |-> None]

\* with JOBS_LOCK: _cleanup_jobs(now, ttl_seconds=3600.0); JOBS[job_id] = {...}
\* (one critical section; nothing it does is visible before the lock is released)
SubmitStore(h) ==
    /\ hpc[h] = "s_lock"
    /\ JOBS_LOCK = Free
    /\ JOBS' = _cleanup_jobs(JOBS, hnow[h], ttl_seconds) \cup {hjid[h]}
    /\ job' = [job EXCEPT ![hjid[h]] = NewJob(hpay[h], hnow[h])]
    /\ hpc' = [hpc EXCEPT ![h] = "s_spawn"]
    /\ UNCHANGED <<JOBS_LOCK, clock, issued, hlocals, wpc, wres, wexc>>
    /\ UNCHANGED <<kvars, wkvars>>
    /\ UNCHANGED fvars

\* threading.Thread(target=run_tarot_job, args=(job_id,), daemon=True).start()
SubmitSpawn(h) ==
    /\ hpc[h] = "s_spawn"
    /\ wpc' = [wpc EXCEPT ![hjid[h]] = "w_lock1"]
    /\ hpc' = [hpc EXCEPT ![h] = "s_respond"]
    /\ UNCHANGED <<JOBS, job, JOBS_LOCK, clock, issued, hlocals, wres, wexc>>
    /\ UNCHANGED <<kvars, wkvars>>
    /\ UNCHANGED fvars

\* (mutation of SubmitRespond: the handler joins the job's thread first)
SubmitRespondJoined(h) ==
    /\ hpc[h] = "s_respond"
    /\ wpc[hjid[h]] = "end"
    /\ hresp' = [hresp EXCEPT ![h] = send_json(200, [ok |-> TRUE, job_id |-> hjid[h]])]
    /\ hpc' = [hpc EXCEPT ![h] = "done"]
    /\ UNCHANGED <<JOBS, job, JOBS_LOCK, clock, issued,
                   hreq, hjid, hnow, hpay, href, hview, wpc, wres, wexc>>
    /\ UNCHANGED <<kvars, wkvars>>
    /\ UNCHANGED fvars

\* send_json(self, 200, {"ok": True, "job_id": job_id})
SubmitRespond(h) ==
    /\ hpc[h] = "s_respond"
    /\ hresp' = [hresp EXCEPT ![h] = send_json(200, [ok |-> TRUE, job_id |-> hjid[h]])]
    /\ hpc' = [hpc EXCEPT ![h] = "done"]
    /\ UNCHANGED <<JOBS, job, JOBS_LOCK, clock, issued,
                   hreq, hjid, hnow, hpay, href, hview, wpc, wres, wexc>>
    /\ UNCHANGED <<kvars, wkvars>>
    /\ UNCHANGED fvars

\* the handler thread ends (response delivered, or the thread died)
HandlerEnd(h) ==
    /\ hpc[h] \in {"done", "crashed"}
    /\ hpc' = [hpc EXCEPT ![h] = "idle"]
    /\ hreq' = [hreq EXCEPT ![h] = NoReq]
    /\ hjid' = [hjid EXCEPT ![h] = 0]
    /\ hnow' = [hnow EXCEPT ![h] = 0]
    /\ hpay' = [hpay EXCEPT ![h] = NoPayload]
    /\ href' = [href EXCEPT ![h] = None]
    /\ hview' = [hview EXCEPT ![h] = NoView]
    /\ hresp' = [hresp EXCEPT ![h] = NoResp]
    /\ UNCHANGED <<JOBS, job, JOBS_LOCK, clock, issued, wpc, wres, wexc>>
    /\ UNCHANGED <<kvars, wkvars>>
    /\ UNCHANGED fvars

\* ------------------------------------------------ GET /api/job/<id>
PollReq(id) == [kind |-> "poll", id |-> id]

\* do_GET: the path names job id `id'
PollRecv(h, id) ==
    /\ hpc[h] = "idle"
    /\ hreq' = [hreq EXCEPT ![h] = PollReq(id)]
    /\ hjid' = [hjid EXCEPT ![h] = id]
    /\ hpc' = [hpc EXCEPT ![h] = "p_lock"]
    /\ UNCHANGED <<JOBS, job, JOBS_LOCK, clock, issued,
                   hnow, hpay, href, hview, hresp, wpc, wres, wexc>>
    /\ UNCHANGED <<kvars, wkvars>>
    /\ UNCHANGED fvars

\* JOBS.get(job_id): a reference to the dict object, or None
JOBS_get(id) == IF id \in JOBS THEN Some(id) ELSE None

\* with JOBS_LOCK: job = JOBS.get(job_id)
\* then, outside the lock, `if not job' answers 404
PollGet(h) ==
    /\ hpc[h] = "p_lock"
    /\ JOBS_LOCK = Free
    /\ href' = [href EXCEPT ![h] = JOBS_get(hjid[h])]
    /\ IF JOBS_get(hjid[h]) = None
         THEN /\ hresp' = [hresp EXCEPT ![h] =
                     send_json(404, [ok |-> FALSE, error |-> "job not found"])]
              /\ hpc' = [hpc EXCEPT ![h] = "done"]
         ELSE /\ hpc' = [hpc EXCEPT ![h] = "p_status"]
              /\ UNCHANGED hresp
    /\ UNCHANGED <<JOBS, job, JOBS_LOCK, clock, issued,
                   hreq, hjid, hnow, hpay, hview, wpc, wres, wexc>>
    /\ UNCHANGED <<kvars, wkvars>>
    /\ UNCHANGED fvars

\* make_safe_job(job) runs after the lock was released and reads the live
\* dict object field by field: job.get("status") ...
PollReadStatus(h) ==
    /\ hpc[h] = "p_status"
    /\ hview' = [hview EXCEPT ![h].status = job[href[h][1]].status]
    /\ hpc' = [hpc EXCEPT ![h] = "p_result"]
    /\ UNCHANGED <<JOBS, job, JOBS_LOCK, clock, issued,
                   hreq, hjid, hnow, hpay, href, hresp, wpc, wres, wexc>>
    /\ UNCHANGED <<kvars, wkvars>>
    /\ UNCHANGED fvars

\* ... job.get("result"), job.get("created_at") ...
PollReadResult(h) ==
    /\ hpc[h] = "p_result"
    /\ hview' = [hview EXCEPT ![h].result = job[href[h][1]].result,
                              ![h].created_at = job[href[h][1]].created_at]
    /\ hpc' = [hpc EXCEPT ![h] = "p_started"]
    /\ UNCHANGED <<JOBS, job, JOBS_LOCK, clock, issued,
                   hreq, hjid, hnow, hpay, href, hresp, wpc, wres, wexc>>
    /\ UNCHANGED <<kvars, wkvars>>
    /\ UNCHANGED fvars

\* ... job.get("started_at") ...
PollReadStarted(h) ==
    /\ hpc[h] = "p_started"
    /\ hview' = [hview EXCEPT ![h].started_at = job[href[h][1]].started_at]
    /\ hpc' = [hpc EXCEPT ![h] = "p_finished"]
    /\ UNCHANGED <<JOBS, job, JOBS_LOCK, clock, issued,
                   hreq, hjid, hnow, hpay, href, hresp, wpc, wres, wexc>>
    /\ UNCHANGED <<kvars, wkvars>>
    /\ UNCHANGED fvars

\* (mutation of make_safe_job: the whole record, payload included)
make_unsafe_job(view, finished_at) ==
    [status |-> view.status, result |-> view.result, created_at |-> view.created_at,
     started_at |-> view.started_at, finished_at |-> finished_at, payload |-> NoPayload]

\* the dict that make_safe_job returns, given the fields read so far
make_safe_job(view, finished_at) ==
    [status |-> view.status, result |-> view.result, created_at |-> view.created_at,
     started_at |-> view.started_at, finished_at |-> finished_at]

\* ... job.get("finished_at"); send_json(self, 200, make_safe_job(job))
PollReadFinished(h) ==
    /\ hpc[h] = "p_finished"
    /\ hview' = [hview EXCEPT ![h].finished_at = job[href[h][1]].finished_at]
    /\ hresp' = [hresp EXCEPT ![h] =
           send_json(200, make_safe_job(hview[h], job[href[h][1]].finished_at))]
    /\ hpc' = [hpc EXCEPT ![h] = "done"]
    /\ UNCHANGED <<JOBS, job, JOBS_LOCK, clock, issued,
                   hreq, hjid, hnow, hpay, href, wpc, wres, wexc>>
    /\ UNCHANGED <<kvars, wkvars>>
    /\ UNCHANGED fvars

\* ------------------------------------------------ run_tarot_job(job_id)
\* what rpc_call_tarot can return, and the exceptions it can raise
RpcResponses == { [ok |-> TRUE, answer |-> "reading"] }
RpcFailures == { "ConnectionRefusedError", "timeout", "ConnectionError", "JSONDecodeError" }

\* with JOBS_LOCK: job = JOBS.get(job_id); if not job: return
WEnter1(j) ==
    /\ wpc[j] = "w_lock1"
    /\ JOBS_LOCK = Free
    /\ IF JOBS_get(j) = None
         THEN UNCHANGED JOBS_LOCK /\ wpc' = [wpc EXCEPT ![j] = "end"]
         ELSE JOBS_LOCK' = Bg(j) /\ wpc' = [wpc EXCEPT ![j] = "w_status"]
    /\ UNCHANGED <<JOBS, job, clock, issued, hpc, hlocals, wres, wexc>>
    /\ UNCHANGED <<kvars, wkvars>>
    /\ UNCHANGED fvars

\* (mutation of WStatus: the status assignment is forgotten)
WStatusForgotten(j) ==
    /\ wpc[j] = "w_status"
    /\ wpc' = [wpc EXCEPT ![j] = "w_started"]
    /\ UNCHANGED <<JOBS, job, JOBS_LOCK, clock, issued, hpc, hlocals, wres, wexc>>
    /\ UNCHANGED <<kvars, wkvars>>
    /\ UNCHANGED fvars

\* job["status"] = "running"
WStatus(j) ==
    /\ wpc[j] = "w_status"
    /\ job' = [job EXCEPT ![j].status = "running"]
    /\ wpc' = [wpc EXCEPT ![j] = "w_started"]
    /\ UNCHANGED <<JOBS, JOBS_LOCK, clock, issued, hpc, hlocals, wres, wexc>>
    /\ UNCHANGED <<kvars, wkvars>>
    /\ UNCHANGED fvars

\* (mutation of WStarted: the call of rpc_call_tarot is inside the with block)
WStartedKeepsLock(j) ==
    /\ wpc[j] = "w_started"
    /\ job' = [job EXCEPT ![j].started_at = Some(clock)]
    /\ wpc' = [wpc EXCEPT ![j] = "w_rpc"]
    /\ UNCHANGED <<JOBS, JOBS_LOCK, clock, issued, hpc, hlocals, wres, wexc>>
    /\ UNCHANGED <<kvars, wkvars>>
    /\ UNCHANGED fvars

\* job["started_at"] = time.time(); the with block ends
WStarted(j) ==
    /\ wpc[j] = "w_started"
    /\ job' = [job EXCEPT ![j].started_at = Some(clock)]
    /\ JOBS_LOCK' = Free
    /\ wpc' = [wpc EXCEPT ![j] = "w_rpc"]
    /\ UNCHANGED <<JOBS, clock, issued, hpc, hlocals, wres, wexc>>
    /\ UNCHANGED <<kvars, wkvars>>
    /\ UNCHANGED fvars

\* result = rpc_call_tarot(payload) returns the worker's response
RpcOk(j, response) ==
    /\ wpc[j] = "w_rpc"
    /\ wres' = [wres EXCEPT ![j] = Some(response)]
    /\ wpc' = [wpc EXCEPT ![j] = "w_lock2"]
    /\ UNCHANGED <<JOBS, job, JOBS_LOCK, clock, issued, hpc, hlocals, wexc>>
    /\ UNCHANGED <<kvars, wkvars>>
    /\ UNCHANGED fvars

\* rpc_call_tarot(payload) raises an exception of class `kind'
RpcFail(j, kind) ==
    /\ wpc[j] = "w_rpc"
    /\ wexc' = [wexc EXCEPT ![j] = Some(kind)]
    /\ wpc' = [wpc EXCEPT ![j] = "w_except"]
    /\ UNCHANGED <<JOBS, job, JOBS_LOCK, clock, issued, hpc, hlocals, wres>>
    /\ UNCHANGED <<kvars, wkvars>>
    /\ UNCHANGED fvars

\* {"ok": False, "error": f"rpc failed: {type(e).__name__}: {e}"}
RpcError(kind) == [ok |-> FALSE, error |-> "rpc failed: " \o kind]

\* (mutation of WExcept: `except ConnectionError', which lets a time-out or
\* a JSONDecodeError leave run_tarot_job)
WExceptNarrow(j) ==
    /\ wpc[j] = "w_except"
    /\ IF wexc[j][1] \in {"ConnectionRefusedError", "ConnectionError"}
         THEN /\ wres' = [wres EXCEPT ![j] = Some(RpcError(wexc[j][1]))]
              /\ wpc' = [wpc EXCEPT ![j] = "w_lock2"]
         ELSE /\ wpc' = [wpc EXCEPT ![j] = "raised"]
              /\ UNCHANGED wres
    /\ UNCHANGED <<JOBS, job, JOBS_LOCK, clock, issued, hpc, hlocals, wexc>>
    /\ UNCHANGED <<kvars, wkvars>>
    /\ UNCHANGED fvars

\* except Exception as e: result = {...}
WExcept(j) ==
    /\ wpc[j] = "w_except"
    /\ wres' = [wres EXCEPT ![j] = Some(RpcError(wexc[j][1]))]
    /\ wpc' = [wpc EXCEPT ![j] = "w_lock2"]
    /\ UNCHANGED <<JOBS, job, JOBS_LOCK, clock, issued, hpc, hlocals, wexc>>
    /\ UNCHANGED <<kvars, wkvars>>
    /\ UNCHANGED fvars

\* (mutation of WEnter2: the second block is skipped when the call failed)
WEnter2OnlyOnSuccess(j) ==
    /\ wpc[j] = "w_lock2"
    /\ JOBS_LOCK = Free
    /\ IF JOBS_get(j) = None \/ wexc[j] # None
         THEN /\ UNCHANGED JOBS_LOCK
              /\ wpc' = [wpc EXCEPT ![j] = "end"]
              /\ wres' = [wres EXCEPT ![j] = None]
              /\ wexc' = [wexc EXCEPT ![j] = None]
         ELSE /\ JOBS_LOCK' = Bg(j)
              /\ wpc' = [wpc EXCEPT ![j] = "w_done"]
              /\ UNCHANGED <<wres, wexc>>
    /\ UNCHANGED <<JOBS, job, clock, issued, hpc, hlocals>>
    /\ UNCHANGED <<kvars, wkvars>>
    /\ UNCHANGED fvars

\* (mutation of WEnter2: a missing record is put back, JOBS.setdefault)
WEnter2Reinserts(j) ==
    /\ wpc[j] = "w_lock2"
    /\ JOBS_LOCK = Free
    /\ JOBS' = JOBS \cup {j}
    /\ JOBS_LOCK' = Bg(j)
    /\ wpc' = [wpc EXCEPT ![j] = "w_done"]
    /\ UNCHANGED <<job, clock, issued, hpc, hlocals, wres, wexc>>
    /\ UNCHANGED <<kvars, wkvars>>
    /\ UNCHANGED fvars

\* with JOBS_LOCK: job2 = JOBS.get(job_id); if not job2: return
WEnter2(j) ==
    /\ wpc[j] = "w_lock2"
    /\ JOBS_LOCK = Free
    /\ IF JOBS_get(j) = None
         THEN /\ UNCHANGED JOBS_LOCK
              /\ wpc' = [wpc EXCEPT ![j] = "end"]
              /\ wres' = [wres EXCEPT ![j] = None]
              /\ wexc' = [wexc EXCEPT ![j] = None]
         ELSE /\ JOBS_LOCK' = Bg(j)
              /\ wpc' = [wpc EXCEPT ![j] = "w_done"]
              /\ UNCHANGED <<wres, wexc>>
    /\ UNCHANGED <<JOBS, job, clock, issued, hpc, hlocals>>
    /\ UNCHANGED <<kvars, wkvars>>
    /\ UNCHANGED fvars

\* (mutation of WDone: `for j in JOBS.values(): j["status"] = "done"')
WDoneAll(j) ==
    /\ wpc[j] = "w_done"
    /\ job' = [k \in JobIds |->
                 IF k \in JOBS THEN [job[k] EXCEPT !.status = "done"] ELSE job[k]]
    /\ wpc' = [wpc EXCEPT ![j] = "w_result"]
    /\ UNCHANGED <<JOBS, JOBS_LOCK, clock, issued, hpc, hlocals, wres, wexc>>
    /\ UNCHANGED <<kvars, wkvars>>
    /\ UNCHANGED fvars

\* job2["status"] = "done"
WDone(j) ==
    /\ wpc[j] = "w_done"
    /\ job' = [job EXCEPT ![j].status = "done"]
    /\ wpc' = [wpc EXCEPT ![j] = "w_result"]
    /\ UNCHANGED <<JOBS, JOBS_LOCK, clock, issued, hpc, hlocals, wres, wexc>>
    /\ UNCHANGED <<kvars, wkvars>>
    /\ UNCHANGED fvars

\* (mutation of WResult: the result is not stored)
WResultSkipped(j) ==
    /\ wpc[j] = "w_result"
    /\ wpc' = [wpc EXCEPT ![j] = "w_finished"]
    /\ UNCHANGED <<JOBS, job, JOBS_LOCK, clock, issued, hpc, hlocals, wres, wexc>>
    /\ UNCHANGED <<kvars, wkvars>>
    /\ UNCHANGED fvars

\* job2["result"] = result
WResult(j) ==
    /\ wpc[j] = "w_result"
    /\ job' = [job EXCEPT ![j].result = wres[j]]
    /\ wpc' = [wpc EXCEPT ![j] = "w_finished"]
    /\ UNCHANGED <<JOBS, JOBS_LOCK, clock, issued, hpc, hlocals, wres, wexc>>
    /\ UNCHANGED <<kvars, wkvars>>
    /\ UNCHANGED fvars

\* job2["finished_at"] = time.time(); the with block ends; the thread ends
WFinished(j) ==
    /\ wpc[j] = "w_finished"
    /\ job' = [job EXCEPT ![j].finished_at = Some(clock)]
    /\ JOBS_LOCK' = Free
    /\ wpc' = [wpc EXCEPT ![j] = "end"]
    /\ wres' = [wres EXCEPT ![j] = None]
    /\ wexc' = [wexc EXCEPT ![j] = None]
    /\ UNCHANGED <<JOBS, clock, issued, hpc, hlocals>>
    /\ UNCHANGED <<kvars, wkvars>>
    /\ UNCHANGED fvars

\* ======================================================================
\*                 WORKER PROCESS  (rpc_server.py, llm_ask.py)
\* ======================================================================
Conn(c) == <<"conn", c>>

WkInit ==
    /\ _TOKENIZER = None
    /\ _MODEL = None
    /\ _MODEL_LOCK = Free
    /\ _GENERATE_LOCK = Free
    /\ tokLoads = 0
    /\ modelLoads = 0
    /\ evalDone = {}
    /\ cpc = [c \in Conns |-> "idle"]
    /\ creq = [c \in Conns |-> NoReq]
    /\ cmodel = [c \in Conns |-> None]
    /\ ctok = [c \in Conns |-> None]
    /\ cexc = [c \in Conns |-> None]
    /\ cresp = [c \in Conns |-> None]
    /\ csock = [c \in Conns |-> "none"]
    /\ crecvd = [c \in Conns |-> 0]
    /\ cwire = [c \in Conns |-> <<>>]
    /\ casked = [c \in Conns |-> 0]
    /\ cbroken = [c \in Conns |-> FALSE]

\* requests that arrive on a connection: a frame holding a JSON object, a
\* whole frame whose body is no JSON object, or a frame cut short by the
\* peer closing the connection
RpcReq(m, q, i) == [kind |-> "frame", mode |-> m, question |-> q, information |-> i]
Truncated == [kind |-> "truncated"]
Garbage == [kind |-> "garbage"]
RpcRequests ==
    { RpcReq(ModeWord("love"), Str(0, "q", MinQuestion, 0), EmptyStr),
      RpcReq(ModeWord("bogus"), Str(0, "q", MinQuestion, 0), EmptyStr),
      RpcReq(ModeWord("career"), Str(1, "q", MinQuestion - 1, 1), EmptyStr),
      Truncated, Garbage }

\* main: conn, addr = srv.accept(); Thread(target=handle_client).start()
Accept(c, req) ==
    /\ cpc[c] = "idle"
    /\ creq' = [creq EXCEPT ![c] = req]
    /\ cpc' = [cpc EXCEPT ![c] = "recv"]
    /\ csock' = [csock EXCEPT ![c] = "open"]
    /\ UNCHANGED <<wkglobals, cmodel, ctok, cexc, cresp>>
    /\ UNCHANGED <<crecvd, cwire, casked, cbroken>>
    /\ UNCHANGED fdvars
    /\ UNCHANGED fvars

\* main, a later turn of `while True': the connection of an earlier turn is
\* closed and its thread gone; a new connection is accepted and handled by a
\* new thread (slot c is reused for it)
AcceptLater(c, req) ==
    /\ cpc[c] = "closed"
    /\ creq' = [creq EXCEPT ![c] = req]
    /\ cpc' = [cpc EXCEPT ![c] = "recv"]
    /\ csock' = [csock EXCEPT ![c] = "open"]
    /\ crecvd' = [crecvd EXCEPT ![c] = 0]
    /\ cwire' = [cwire EXCEPT ![c] = <<>>]
    /\ casked' = [casked EXCEPT ![c] = 0]
    /\ cbroken' = [cbroken EXCEPT ![c] = FALSE]
    /\ UNCHANGED <<wkglobals, cmodel, ctok, cexc, cresp>>
    /\ UNCHANGED fdvars
    /\ UNCHANGED fvars

\* (mutation of HandleRecv: the length of the question is not checked)
HandleRecvNoLengthCheck(c) ==
    /\ cpc[c] = "recv"
    /\ creq[c] # NoReq
    /\ IF creq[c].kind = "truncated"
         THEN /\ cexc' = [cexc EXCEPT ![c] = Some("ConnectionError: socket closed")]
              /\ cpc' = [cpc EXCEPT ![c] = "except"]
              /\ UNCHANGED <<cresp, crecvd, casked>>
         ELSE IF creq[c].kind = "garbage"
         THEN /\ cexc' = [cexc EXCEPT ![c] = Some("JSONDecodeError: Expecting value")]
              /\ cpc' = [cpc EXCEPT ![c] = "except"]
              /\ crecvd' = [crecvd EXCEPT ![c] = @ + 1]
              /\ UNCHANGED <<cresp, casked>>
         ELSE IF strip(get(creq[c], "mode")) \notin AllowedModeStrs
         THEN /\ cresp' = [cresp EXCEPT ![c] = Some([ok |-> FALSE, error |-> "bad mode"])]
              /\ cpc' = [cpc EXCEPT ![c] = "send"]
              /\ crecvd' = [crecvd EXCEPT ![c] = @ + 1]
              /\ UNCHANGED <<cexc, casked>>
         ELSE /\ cpc' = [cpc EXCEPT ![c] = "gm_fast"]
              /\ crecvd' = [crecvd EXCEPT ![c] = @ + 1]
              /\ casked' = [casked EXCEPT ![c] = @ + 1]
              /\ UNCHANGED <<cexc, cresp>>
    /\ UNCHANGED <<wkglobals, creq, cmodel, ctok>>
    /\ UNCHANGED <<csock, cwire, cbroken>>
    /\ UNCHANGED fdvars
    /\ UNCHANGED fvars

\* handle_client: req = recv_msg(conn), which blocks until the request has
\* arrived or the peer has closed; then the validation of mode and question;
\* a valid request goes on to result = ask_tarot(...)
HandleRecv(c) ==
    /\ cpc[c] = "recv"
    /\ creq[c] # NoReq
    /\ IF creq[c].kind = "truncated"
         THEN /\ cexc' = [cexc EXCEPT ![c] = Some("ConnectionError: socket closed")]
              /\ cpc' = [cpc EXCEPT ![c] = "except"]
              /\ UNCHANGED <<cresp, crecvd, casked>>
         ELSE IF creq[c].kind = "garbage"
         THEN /\ cexc' = [cexc EXCEPT ![c] = Some("JSONDecodeError: Expecting value")]
              /\ cpc' = [cpc EXCEPT ![c] = "except"]
              /\ crecvd' = [crecvd EXCEPT ![c] = @ + 1]
              /\ UNCHANGED <<cresp, casked>>
         ELSE IF strip(get(creq[c], "mode")) \notin AllowedModeStrs
         THEN /\ cresp' = [cresp EXCEPT ![c] = Some([ok |-> FALSE, error |-> "bad mode"])]
              /\ cpc' = [cpc EXCEPT ![c] = "send"]
              /\ crecvd' = [crecvd EXCEPT ![c] = @ + 1]
              /\ UNCHANGED <<cexc, casked>>
         ELSE IF len(strip(get(creq[c], "question"))) < MinQuestion
         THEN /\ cresp' = [cresp EXCEPT ![c] =
                     Some([ok |-> FALSE, error |-> "question too short"])]
              /\ cpc' = [cpc EXCEPT ![c] = "send"]
              /\ crecvd' = [crecvd EXCEPT ![c] = @ + 1]
              /\ UNCHANGED <<cexc, casked>>
         ELSE /\ cpc' = [cpc EXCEPT ![c] = "gm_fast"]
              /\ crecvd' = [crecvd EXCEPT ![c] = @ + 1]
              /\ casked' = [casked EXCEPT ![c] = @ + 1]
              /\ UNCHANGED <<cexc, cresp>>
    /\ UNCHANGED <<wkglobals, creq, cmodel, ctok>>
    /\ UNCHANGED <<csock, cwire, cbroken>>
    /\ UNCHANGED fdvars
    /\ UNCHANGED fvars

\* ------------------------------------------------ get_model_and_tokenizer
\* fast path: if _TOKENIZER is not None and _MODEL is not None: return
GmFast(c) ==
    /\ cpc[c] = "gm_fast"
    /\ IF _TOKENIZER # None /\ _MODEL # None
         THEN /\ cmodel' = [cmodel EXCEPT ![c] = _MODEL]
              /\ ctok' = [ctok EXCEPT ![c] = _TOKENIZER]
              /\ cpc' = [cpc EXCEPT ![c] = "template"]
         ELSE /\ cpc' = [cpc EXCEPT ![c] = "gm_lock"]
              /\ UNCHANGED <<cmodel, ctok>>
    /\ UNCHANGED <<wkglobals, creq, cexc, cresp>>
    /\ UNCHANGED <<fdvars, cconn>>
    /\ UNCHANGED fvars

\* slow path: with _MODEL_LOCK:
GmLock(c) ==
    /\ cpc[c] = "gm_lock"
    /\ _MODEL_LOCK = Free
    /\ _MODEL_LOCK' = Conn(c)
    /\ cpc' = [cpc EXCEPT ![c] = "gm_tok"]
    /\ UNCHANGED <<_TOKENIZER, _MODEL, _GENERATE_LOCK, tokLoads, modelLoads, evalDone, clocals>>
    /\ UNCHANGED <<fdvars, cconn>>
    /\ UNCHANGED fvars

\* if _TOKENIZER is None: _TOKENIZER = AutoTokenizer.from_pretrained(...)
\* (loaded = FALSE: from_pretrained raises, the with block releases the lock)
GmTok(c, loaded) ==
    /\ cpc[c] = "gm_tok"
    /\ IF _TOKENIZER # None
         THEN /\ loaded
              /\ cpc' = [cpc EXCEPT ![c] = "gm_model"]
              /\ UNCHANGED <<_TOKENIZER, tokLoads, _MODEL_LOCK, cexc>>
         ELSE IF loaded
         THEN /\ _TOKENIZER' = Some(tokLoads + 1)
              /\ tokLoads' = tokLoads + 1
              /\ cpc' = [cpc EXCEPT ![c] = "gm_model"]
              /\ UNCHANGED <<_MODEL_LOCK, cexc>>
         ELSE /\ _MODEL_LOCK' = Free
              /\ cexc' = [cexc EXCEPT ![c] = Some("OSError: tokenizer load failed")]
              /\ cpc' = [cpc EXCEPT ![c] = "except"]
              /\ UNCHANGED <<_TOKENIZER, tokLoads>>
    /\ UNCHANGED <<_MODEL, _GENERATE_LOCK, modelLoads, evalDone, creq, cmodel, ctok, cresp>>
    /\ UNCHANGED <<fdvars, cconn>>
    /\ UNCHANGED fvars

\* (mutation of GmModel: the slow path loads without checking _MODEL again)
GmModelNoRecheck(c, loaded) ==
    /\ cpc[c] = "gm_model"
    /\ IF loaded
         THEN /\ _MODEL' = Some(modelLoads + 1)
              /\ modelLoads' = modelLoads + 1
              /\ cpc' = [cpc EXCEPT ![c] = "gm_eval"]
              /\ UNCHANGED <<_MODEL_LOCK, cexc>>
         ELSE /\ _MODEL_LOCK' = Free
              /\ cexc' = [cexc EXCEPT ![c] = Some("OSError: model load failed")]
              /\ cpc' = [cpc EXCEPT ![c] = "except"]
              /\ UNCHANGED <<_MODEL, modelLoads>>
    /\ UNCHANGED <<_TOKENIZER, _GENERATE_LOCK, tokLoads, evalDone, creq, cmodel, ctok, cresp>>
    /\ UNCHANGED <<fdvars, cconn>>
    /\ UNCHANGED fvars

\* if _MODEL is None: _MODEL = AutoModelForCausalLM.from_pretrained(...)
GmModel(c, loaded) ==
    /\ cpc[c] = "gm_model"
    /\ IF _MODEL # None
         THEN /\ loaded
              /\ cpc' = [cpc EXCEPT ![c] = "gm_ret"]
              /\ UNCHANGED <<_MODEL, modelLoads, _MODEL_LOCK, cexc>>
         ELSE IF loaded
         THEN /\ _MODEL' = Some(modelLoads + 1)
              /\ modelLoads' = modelLoads + 1
              /\ cpc' = [cpc EXCEPT ![c] = "gm_eval"]
              /\ UNCHANGED <<_MODEL_LOCK, cexc>>
         ELSE /\ _MODEL_LOCK' = Free
              /\ cexc' = [cexc EXCEPT ![c] = Some("OSError: model load failed")]
              /\ cpc' = [cpc EXCEPT ![c] = "except"]
              /\ UNCHANGED <<_MODEL, modelLoads>>
    /\ UNCHANGED <<_TOKENIZER, _GENERATE_LOCK, tokLoads, evalDone, creq, cmodel, ctok, cresp>>
    /\ UNCHANGED <<fdvars, cconn>>
    /\ UNCHANGED fvars

\* _MODEL.eval()
GmEval(c) ==
    /\ cpc[c] = "gm_eval"
    /\ evalDone' = evalDone \cup {_MODEL[1]}
    /\ cpc' = [cpc EXCEPT ![c] = "gm_ret"]
    /\ UNCHANGED <<_TOKENIZER, _MODEL, _MODEL_LOCK, _GENERATE_LOCK, tokLoads, modelLoads, clocals>>
    /\ UNCHANGED <<fdvars, cconn>>
    /\ UNCHANGED fvars

\* (mutation of GmReturn: the return is inside a lock that is never released)
GmReturnKeepsLock(c) ==
    /\ cpc[c] = "gm_ret"
    /\ cmodel' = [cmodel EXCEPT ![c] = _MODEL]
    /\ ctok' = [ctok EXCEPT ![c] = _TOKENIZER]
    /\ cpc' = [cpc EXCEPT ![c] = "template"]
    /\ UNCHANGED <<_TOKENIZER, _MODEL, _MODEL_LOCK, _GENERATE_LOCK, tokLoads, modelLoads,
                   evalDone, creq, cexc, cresp>>
    /\ UNCHANGED <<fdvars, cconn>>
    /\ UNCHANGED fvars

\* the with block ends; return _MODEL, _TOKENIZER
GmReturn(c) ==
    /\ cpc[c] = "gm_ret"
    /\ _MODEL_LOCK' = Free
    /\ cmodel' = [cmodel EXCEPT ![c] = _MODEL]
    /\ ctok' = [ctok EXCEPT ![c] = _TOKENIZER]
    /\ cpc' = [cpc EXCEPT ![c] = "template"]
    /\ UNCHANGED <<_TOKENIZER, _MODEL, _GENERATE_LOCK, tokLoads, modelLoads, evalDone,
                   creq, cexc, cresp>>
    /\ UNCHANGED <<fdvars, cconn>>
    /\ UNCHANGED fvars

\* ------------------------------------------------ generate_response_qwen
\* text = tokenizer.apply_chat_template(...)
Template(c) ==
    /\ cpc[c] = "template"
    /\ cpc' = [cpc EXCEPT ![c] = "tokenize"]
    /\ UNCHANGED <<wkglobals, clocals>>
    /\ UNCHANGED <<fdvars, cconn>>
    /\ UNCHANGED fvars

\* inputs = tokenizer(text, return_tensors="pt")
Tokenize(c) ==
    /\ cpc[c] = "tokenize"
    /\ cpc' = [cpc EXCEPT ![c] = "embed"]
    /\ UNCHANGED <<wkglobals, clocals>>
    /\ UNCHANGED <<fdvars, cconn>>
    /\ UNCHANGED fvars

\* embed_device = model.get_input_embeddings().weight.device
Embed(c) ==
    /\ cpc[c] = "embed"
    /\ cpc' = [cpc EXCEPT ![c] = "gen_lock"]
    /\ UNCHANGED <<wkglobals, clocals>>
    /\ UNCHANGED <<fdvars, cconn>>
    /\ UNCHANGED fvars

\* (mutation of GenLock: generate is entered without taking the lock)
GenLockNotTaken(c) ==
    /\ cpc[c] = "gen_lock"
    /\ cpc' = [cpc EXCEPT ![c] = "generate"]
    /\ UNCHANGED <<wkglobals, clocals>>
    /\ UNCHANGED <<fdvars, cconn>>
    /\ UNCHANGED fvars

\* with _GENERATE_LOCK:
GenLock(c) ==
    /\ cpc[c] = "gen_lock"
    /\ _GENERATE_LOCK = Free
    /\ _GENERATE_LOCK' = Conn(c)
    /\ cpc' = [cpc EXCEPT ![c] = "generate"]
    /\ UNCHANGED <<_TOKENIZER, _MODEL, _MODEL_LOCK, tokLoads, modelLoads, evalDone, clocals>>
    /\ UNCHANGED <<fdvars, cconn>>
    /\ UNCHANGED fvars

\* output_ids = model.generate(...) returns; the with block ends
GenerateReturn(c) ==
    /\ cpc[c] = "generate"
    /\ _GENERATE_LOCK' = Free
    /\ cpc' = [cpc EXCEPT ![c] = "decode"]
    /\ UNCHANGED <<_TOKENIZER, _MODEL, _MODEL_LOCK, tokLoads, modelLoads, evalDone, clocals>>
    /\ UNCHANGED <<fdvars, cconn>>
    /\ UNCHANGED fvars

\* (mutation of GenerateRaise: acquire() / release() without try-finally, the
\* exception skips the release)
GenerateRaiseKeepsLock(c) ==
    /\ cpc[c] = "generate"
    /\ cexc' = [cexc EXCEPT ![c] = Some("RuntimeError: generate failed")]
    /\ cpc' = [cpc EXCEPT ![c] = "except"]
    /\ UNCHANGED <<_TOKENIZER, _MODEL, _MODEL_LOCK, _GENERATE_LOCK, tokLoads, modelLoads,
                   evalDone, creq, cmodel, ctok, cresp>>
    /\ UNCHANGED <<fdvars, cconn>>
    /\ UNCHANGED fvars

\* model.generate(...) raises; the with block releases the lock
GenerateRaise(c) ==
    /\ cpc[c] = "generate"
    /\ _GENERATE_LOCK' = Free
    /\ cexc' = [cexc EXCEPT ![c] = Some("RuntimeError: generate failed")]
    /\ cpc' = [cpc EXCEPT ![c] = "except"]
    /\ UNCHANGED <<_TOKENIZER, _MODEL, _MODEL_LOCK, tokLoads, modelLoads, evalDone,
                   creq, cmodel, ctok, cresp>>
    /\ UNCHANGED <<fdvars, cconn>>
    /\ UNCHANGED fvars

\* tokenizer.decode(gen_ids); ask_tarot returns its result to handle_client
Decode(c) ==
    /\ cpc[c] = "decode"
    /\ cresp' = [cresp EXCEPT ![c] = Some([ok |-> TRUE, answer |-> "reading"])]
    /\ cpc' = [cpc EXCEPT ![c] = "send"]
    /\ UNCHANGED <<wkglobals, creq, cmodel, ctok, cexc>>
    /\ UNCHANGED <<fdvars, cconn>>
    /\ UNCHANGED fvars

\* ------------------------------------------------ ask_tarot as one step
\* result = ask_tarot(...) seen from handle_client: the call returns a result
\* or raises, and leaves the tokenizer and the model loaded as far as it got
\* (`upto' is the last stage reached: "tokenizer", "model" or "generate").
TokenizerAfter == IF _TOKENIZER = None THEN Some(tokLoads + 1) ELSE _TOKENIZER
ModelAfter == IF _MODEL = None THEN Some(modelLoads + 1) ELSE _MODEL
AskTarotLoads(upto) ==
    /\ _MODEL_LOCK = Free
    /\ _GENERATE_LOCK = Free
    /\ IF upto = "tokenizer"
         THEN UNCHANGED <<_TOKENIZER, tokLoads>>
         ELSE /\ _TOKENIZER' = TokenizerAfter
              /\ tokLoads' = IF _TOKENIZER = None THEN tokLoads + 1 ELSE tokLoads
    /\ IF upto = "generate"
         THEN /\ _MODEL' = ModelAfter
              /\ modelLoads' = IF _MODEL = None THEN modelLoads + 1 ELSE modelLoads
              /\ evalDone' = IF _MODEL = None THEN evalDone \cup {modelLoads + 1} ELSE evalDone
         ELSE UNCHANGED <<_MODEL, modelLoads, evalDone>>
    /\ UNCHANGED <<_MODEL_LOCK, _GENERATE_LOCK>>
    /\ UNCHANGED fvars

AskTarotReturn(c) ==
    /\ cpc[c] = "gm_fast"
    /\ AskTarotLoads("generate")
    /\ cmodel' = [cmodel EXCEPT ![c] = ModelAfter]
    /\ ctok' = [ctok EXCEPT ![c] = TokenizerAfter]
    /\ cresp' = [cresp EXCEPT ![c] = Some([ok |-> TRUE, answer |-> "reading"])]
    /\ cpc' = [cpc EXCEPT ![c] = "send"]
    /\ UNCHANGED <<creq, cexc>>
    /\ UNCHANGED <<fdvars, cconn>>
    /\ UNCHANGED fvars

AskTarotRaise(c, upto) ==
    /\ cpc[c] = "gm_fast"
    /\ upto = "tokenizer" => _TOKENIZER = None
    /\ upto = "model" => _MODEL = None
    /\ AskTarotLoads(upto)
    /\ cexc' = [cexc EXCEPT ![c] =
           Some(CASE upto = "tokenizer" -> "OSError: tokenizer load failed"
                  [] upto = "model" -> "OSError: model load failed"
                  [] upto = "generate" -> "RuntimeError: generate failed")]
    /\ cmodel' = [cmodel EXCEPT ![c] = IF upto = "generate" THEN ModelAfter ELSE @]
    /\ ctok' = [ctok EXCEPT ![c] = IF upto = "generate" THEN TokenizerAfter ELSE @]
    /\ cpc' = [cpc EXCEPT ![c] = "except"]
    /\ UNCHANGED <<creq, cresp>>
    /\ UNCHANGED <<fdvars, cconn>>
    /\ UNCHANGED fvars

\* What send_msg(conn, obj) can do: write the whole frame; raise from
\* json.dumps / encode before a byte is written (only a collaborator's result
\* can hold text that does not encode); raise from sendall because the peer
\* is gone, after which every later send on the connection fails too.
SendOutcomes == {"sent", "unencodable", "broken"}

\* (mutation of HandleSend: the `return' after a validation error is missing,
\* so the handler goes on to ask_tarot and answers again)
HandleSendNoReturn(c, outcome) ==
    /\ cpc[c] = "send"
    /\ outcome = "sent"
    /\ cwire' = [cwire EXCEPT ![c] = Append(@, cresp[c][1])]
    /\ cpc' = [cpc EXCEPT ![c] = IF cresp[c][1].ok THEN "finally" ELSE "gm_fast"]
    /\ UNCHANGED <<wkglobals, clocals>>
    /\ UNCHANGED <<csock, crecvd, casked, cbroken>>
    /\ UNCHANGED fdvars
    /\ UNCHANGED fvars

\* handle_client: send_msg(conn, {...}); return (lines 64-65, 69-70) and
\* send_msg(conn, result) (line 95)
HandleSend(c, outcome) ==
    /\ cpc[c] = "send"
    /\ CASE outcome = "sent" ->
              /\ cwire' = [cwire EXCEPT ![c] = Append(@, cresp[c][1])]
              /\ cpc' = [cpc EXCEPT ![c] = "finally"]
              /\ UNCHANGED <<cexc, cbroken>>
         [] outcome = "unencodable" ->
              /\ cresp[c][1].ok
              /\ cexc' = [cexc EXCEPT ![c] = Some("UnicodeEncodeError: surrogates not allowed")]
              /\ cpc' = [cpc EXCEPT ![c] = "except"]
              /\ UNCHANGED <<cwire, cbroken>>
         [] outcome = "broken" ->
              /\ cbroken' = [cbroken EXCEPT ![c] = TRUE]
              /\ cexc' = [cexc EXCEPT ![c] = Some("BrokenPipeError: Broken pipe")]
              /\ cpc' = [cpc EXCEPT ![c] = "except"]
              /\ UNCHANGED cwire
    /\ UNCHANGED <<wkglobals, creq, cmodel, ctok, cresp>>
    /\ UNCHANGED <<csock, crecvd, casked>>
    /\ UNCHANGED fdvars
    /\ UNCHANGED fvars

\* {"ok": False, "error": f"{type(e).__name__}: {e}"}
HandlerError(e) == [ok |-> FALSE, error |-> e]

\* (mutation of HandleExcept: the handler does not answer the failed request)
HandleExceptSilent(c, sent) ==
    /\ cpc[c] = "except"
    /\ cpc' = [cpc EXCEPT ![c] = "finally"]
    /\ UNCHANGED <<wkglobals, clocals>>
    /\ UNCHANGED <<fdvars, cconn>>
    /\ UNCHANGED fvars

\* except Exception as e: try: send_msg(conn, {"ok": False, "error": ...})
\* except Exception: pass   (sent = FALSE: this send raises and is swallowed)
HandleExcept(c, sent) ==
    /\ cpc[c] = "except"
    /\ cresp' = [cresp EXCEPT ![c] = Some(HandlerError(cexc[c][1]))]
    /\ IF sent /\ ~cbroken[c]
         THEN /\ cwire' = [cwire EXCEPT ![c] = Append(@, HandlerError(cexc[c][1]))]
              /\ UNCHANGED cbroken
         ELSE /\ cbroken' = [cbroken EXCEPT ![c] = TRUE]
              /\ UNCHANGED cwire
    /\ cpc' = [cpc EXCEPT ![c] = "finally"]
    /\ UNCHANGED <<wkglobals, creq, cmodel, ctok, cexc>>
    /\ UNCHANGED <<csock, crecvd, casked>>
    /\ UNCHANGED fdvars
    /\ UNCHANGED fvars

\* (mutation of HandleClose: the finally block is missing)
HandleCloseForgotten(c) ==
    /\ cpc[c] = "finally"
    /\ cpc' = [cpc EXCEPT ![c] = "closed"]
    /\ creq' = [creq EXCEPT ![c] = NoReq]
    /\ cmodel' = [cmodel EXCEPT ![c] = None]
    /\ ctok' = [ctok EXCEPT ![c] = None]
    /\ cexc' = [cexc EXCEPT ![c] = None]
    /\ cresp' = [cresp EXCEPT ![c] = None]
    /\ UNCHANGED wkglobals
    /\ UNCHANGED <<fdvars, cconn>>
    /\ UNCHANGED fvars

\* finally: conn.close(); the handler thread ends, its locals are gone
HandleClose(c) ==
    /\ cpc[c] = "finally"
    /\ csock' = [csock EXCEPT ![c] = "closed"]
    /\ cpc' = [cpc EXCEPT ![c] = "closed"]
    /\ creq' = [creq EXCEPT ![c] = NoReq]
    /\ cmodel' = [cmodel EXCEPT ![c] = None]
    /\ ctok' = [ctok EXCEPT ![c] = None]
    /\ cexc' = [cexc EXCEPT ![c] = None]
    /\ cresp' = [cresp EXCEPT ![c] = None]
    /\ UNCHANGED wkglobals
    /\ UNCHANGED <<crecvd, cwire, casked, cbroken>>
    /\ UNCHANGED fdvars
    /\ UNCHANGED fvars

\* ======================================================================
\*          RPC CLIENT  (local_web.py, rpc_call_tarot)
\* ======================================================================
\* Call k of rpc_call_tarot uses connection k of the worker when the worker
\* is what listens on the port.
RpcPayloads == RpcRequests \ {Truncated, Garbage}
ConnectResults == {"worker", "other", "ConnectionRefusedError", "timeout"}

\* data = json.dumps(payload).encode(); header = struct.pack("!I", len(data))
CallStart(k, payload) ==
    /\ kpc[k] = "idle"
    /\ kpay' = [kpay EXCEPT ![k] = payload]
    /\ kpc' = [kpc EXCEPT ![k] = "connect"]
    /\ kcalls' = [kcalls EXCEPT ![k] = @ + 1]
    /\ UNCHANGED <<ksock, kpeer, kexc, kres, kwrote, kread>>
    /\ UNCHANGED <<JOBS, job, JOBS_LOCK, clock, issued, hpc, hlocals, wpc, wres, wexc>>
    /\ UNCHANGED wkvars
    /\ UNCHANGED fvars

\* with socket.create_connection((host, port), timeout=timeout) as conn:
\* the worker accepts and starts handle_client, or another program listens
\* on the port, or the connect raises (then there is no socket)
CallConnect(k, r) ==
    /\ kpc[k] = "connect"
    /\ CASE r = "worker" ->
              /\ cpc[k] = "idle"
              /\ cpc' = [cpc EXCEPT ![k] = "recv"]
              /\ csock' = [csock EXCEPT ![k] = "open"]
              /\ ksock' = [ksock EXCEPT ![k] = "open"]
              /\ kpeer' = [kpeer EXCEPT ![k] = r]
              /\ kpc' = [kpc EXCEPT ![k] = "send"]
              /\ UNCHANGED kexc
         [] r = "other" ->
              /\ ksock' = [ksock EXCEPT ![k] = "open"]
              /\ kpeer' = [kpeer EXCEPT ![k] = r]
              /\ kpc' = [kpc EXCEPT ![k] = "send"]
              /\ UNCHANGED <<cpc, csock, kexc>>
         [] OTHER ->
              /\ kexc' = [kexc EXCEPT ![k] = Some(r)]
              /\ kpc' = [kpc EXCEPT ![k] = "raised"]
              /\ UNCHANGED <<cpc, csock, ksock, kpeer>>
    /\ UNCHANGED <<kpay, kres, kwrote, kread, kcalls>>
    /\ UNCHANGED <<JOBS, job, JOBS_LOCK, clock, issued, hpc, hlocals, wpc, wres, wexc>>
    /\ UNCHANGED <<wkglobals, clocals, crecvd, cwire, casked, cbroken>>
    /\ UNCHANGED fvars

\* conn.sendall(header + data): the whole frame is written, or sendall raises
CallSend(k, ok) ==
    /\ kpc[k] = "send"
    /\ IF ok
         THEN /\ kwrote' = [kwrote EXCEPT ![k] = @ + 1]
              /\ creq' = IF kpeer[k] = "worker" THEN [creq EXCEPT ![k] = kpay[k]] ELSE creq
              /\ kpc' = [kpc EXCEPT ![k] = "recv"]
              /\ UNCHANGED kexc
         ELSE /\ kexc' = [kexc EXCEPT ![k] = Some("BrokenPipeError")]
              /\ kpc' = [kpc EXCEPT ![k] = "exit"]
              /\ UNCHANGED <<kwrote, creq>>
    /\ UNCHANGED <<kpay, ksock, kpeer, kres, kread, kcalls>>
    /\ UNCHANGED <<JOBS, job, JOBS_LOCK, clock, issued, hpc, hlocals, wpc, wres, wexc>>
    /\ UNCHANGED <<wkglobals, cpc, cmodel, ctok, cexc, cresp, cconn>>
    /\ UNCHANGED fvars

\* what the program at the other end has done for the reader: written a
\* response frame that is not read yet; closed without one
FrameWaiting(k) == kpeer[k] = "worker" /\ Len(cwire[k]) > kread[k]
PeerClosed(k) == kpeer[k] = "worker" /\ csock[k] = "closed" /\ Len(cwire[k]) = kread[k]

\* raw_len = _recvall(conn, 4); msg_len = unpack; raw = _recvall(conn, msg_len)
\* what = "frame": the frame the worker wrote; "json" / "text": a frame from
\* another program, holding JSON or not; "eof": the peer closed first
CallRecv(k, what) ==
    /\ kpc[k] = "recv"
    /\ CASE what = "frame" ->
              /\ FrameWaiting(k)
              /\ kres' = [kres EXCEPT ![k] = Some(cwire[k][kread[k] + 1])]
              /\ kread' = [kread EXCEPT ![k] = @ + 1]
              /\ kpc' = [kpc EXCEPT ![k] = "loads"]
              /\ UNCHANGED kexc
         [] what = "json" ->
              /\ kpeer[k] = "other"
              /\ kres' = [kres EXCEPT ![k] = Some([ok |-> TRUE, answer |-> "other"])]
              /\ kread' = [kread EXCEPT ![k] = @ + 1]
              /\ kpc' = [kpc EXCEPT ![k] = "loads"]
              /\ UNCHANGED kexc
         [] what = "text" ->
              /\ kpeer[k] = "other"
              /\ kres' = [kres EXCEPT ![k] = Some(Garbage)]
              /\ kread' = [kread EXCEPT ![k] = @ + 1]
              /\ kpc' = [kpc EXCEPT ![k] = "loads"]
              /\ UNCHANGED kexc
         [] what = "eof" ->
              /\ PeerClosed(k) \/ kpeer[k] = "other"
              /\ kexc' = [kexc EXCEPT ![k] = Some("ConnectionError")]
              /\ kpc' = [kpc EXCEPT ![k] = "exit"]
              /\ UNCHANGED <<kres, kread>>
    /\ UNCHANGED <<kpay, ksock, kpeer, kwrote, kcalls>>
    /\ UNCHANGED <<JOBS, job, JOBS_LOCK, clock, issued, hpc, hlocals, wpc, wres, wexc>>
    /\ UNCHANGED wkvars
    /\ UNCHANGED fvars

\* conn.recv raises socket.timeout: nothing arrived within `timeout'
CallTimeout(k) ==
    /\ kpc[k] = "recv"
    /\ ~FrameWaiting(k)
    /\ kexc' = [kexc EXCEPT ![k] = Some("timeout")]
    /\ kpc' = [kpc EXCEPT ![k] = "exit"]
    /\ UNCHANGED <<kpay, ksock, kpeer, kres, kwrote, kread, kcalls>>
    /\ UNCHANGED <<JOBS, job, JOBS_LOCK, clock, issued, hpc, hlocals, wpc, wres, wexc>>
    /\ UNCHANGED wkvars
    /\ UNCHANGED fvars

\* return json.loads(raw.decode("utf-8"))
CallLoads(k) ==
    /\ kpc[k] = "loads"
    /\ IF kres[k][1] = Garbage
         THEN /\ kexc' = [kexc EXCEPT ![k] = Some("JSONDecodeError")]
              /\ kres' = [kres EXCEPT ![k] = None]
         ELSE UNCHANGED <<kexc, kres>>
    /\ kpc' = [kpc EXCEPT ![k] = "exit"]
    /\ UNCHANGED <<kpay, ksock, kpeer, kwrote, kread, kcalls>>
    /\ UNCHANGED <<JOBS, job, JOBS_LOCK, clock, issued, hpc, hlocals, wpc, wres, wexc>>
    /\ UNCHANGED wkvars
    /\ UNCHANGED fvars

\* the with block is left, by return or by an exception: conn.close(); a
\* worker handler still waiting for the request now reads end of stream
CallExit(k) ==
    /\ kpc[k] = "exit"
    /\ ksock' = [ksock EXCEPT ![k] = "closed"]
    /\ kpc' = [kpc EXCEPT ![k] = IF kexc[k] = None THEN "returned" ELSE "raised"]
    /\ creq' = IF kpeer[k] = "worker" /\ creq[k] = NoReq
                 THEN [creq EXCEPT ![k] = Truncated] ELSE creq
    /\ UNCHANGED <<kpay, kpeer, kexc, kres, kwrote, kread, kcalls>>
    /\ UNCHANGED <<JOBS, job, JOBS_LOCK, clock, issued, hpc, hlocals, wpc, wres, wexc>>
    /\ UNCHANGED <<wkglobals, cpc, cmodel, ctok, cexc, cresp, cconn>>
    /\ UNCHANGED fvars

\* ------------------------------------------------ run_tarot_job, call by call
\* The background thread of job j makes its call of rpc_call_tarot as call j.
\* result = rpc_call_tarot(payload): the call begins
JobCall(j) ==
    /\ wpc[j] = "w_rpc"
    /\ kpc[j] = "idle"
    /\ kpay' = [kpay EXCEPT ![j] =
           RpcReq(job[j].payload.mode, job[j].payload.question, job[j].payload.information)]
    /\ kpc' = [kpc EXCEPT ![j] = "connect"]
    /\ kcalls' = [kcalls EXCEPT ![j] = @ + 1]
    /\ wpc' = [wpc EXCEPT ![j] = "w_call"]
    /\ UNCHANGED <<ksock, kpeer, kexc, kres, kwrote, kread>>
    /\ UNCHANGED <<JOBS, job, JOBS_LOCK, clock, issued, hpc, hlocals, wres, wexc>>
    /\ UNCHANGED wkvars
    /\ UNCHANGED fvars

\* result = rpc_call_tarot(payload): the call returns, its locals are gone
JobCallReturn(j) ==
    /\ wpc[j] = "w_call"
    /\ kpc[j] = "returned"
    /\ wres' = [wres EXCEPT ![j] = kres[j]]
    /\ wpc' = [wpc EXCEPT ![j] = "w_lock2"]
    /\ kpc' = [kpc EXCEPT ![j] = "over"]
    /\ kpay' = [kpay EXCEPT ![j] = NoReq]
    /\ kres' = [kres EXCEPT ![j] = None]
    /\ UNCHANGED <<ksock, kpeer, kexc, kwrote, kread, kcalls>>
    /\ UNCHANGED <<JOBS, job, JOBS_LOCK, clock, issued, hpc, hlocals, wexc>>
    /\ UNCHANGED wkvars
    /\ UNCHANGED fvars

\* (mutation of JobCallRaise: a failed call is made again)
JobCallRetry(j) ==
    /\ wpc[j] = "w_call"
    /\ kpc[j] = "raised"
    /\ kpc' = [kpc EXCEPT ![j] = "connect"]
    /\ kexc' = [kexc EXCEPT ![j] = None]
    /\ kcalls' = [kcalls EXCEPT ![j] = @ + 1]
    /\ UNCHANGED <<kpay, ksock, kpeer, kres, kwrote, kread>>
    /\ UNCHANGED <<JOBS, job, JOBS_LOCK, clock, issued, hpc, hlocals, wpc, wres, wexc>>
    /\ UNCHANGED wkvars
    /\ UNCHANGED fvars

\* rpc_call_tarot raises into the try block of run_tarot_job, its locals
\* are gone
JobCallRaise(j) ==
    /\ wpc[j] = "w_call"
    /\ kpc[j] = "raised"
    /\ wexc' = [wexc EXCEPT ![j] = kexc[j]]
    /\ wpc' = [wpc EXCEPT ![j] = "w_except"]
    /\ kpc' = [kpc EXCEPT ![j] = "over"]
    /\ kpay' = [kpay EXCEPT ![j] = NoReq]
    /\ kexc' = [kexc EXCEPT ![j] = None]
    /\ UNCHANGED <<ksock, kpeer, kres, kwrote, kread, kcalls>>
    /\ UNCHANGED <<JOBS, job, JOBS_LOCK, clock, issued, hpc, hlocals, wres>>
    /\ UNCHANGED wkvars
    /\ UNCHANGED fvars

\* ======================================================================
\*        FRAMES  (rpc_server.py send_msg / recv_msg; local_web.py
\*                 rpc_call_tarot / _recvall)
\* ======================================================================
\* A framed object is a JSON object with one text; the text is a sequence of
\* code points: "a" (1 byte in UTF-8), e-acute (2 bytes), a CJK character
\* (3 bytes).
Chars == {97, 233, 29260}
Texts == UNION {[1..n -> Chars] : n \in 0..MaxChars}

\* json.dumps(obj, ensure_ascii=False): the characters { " text " }
json_dumps(obj) == <<123, 34>> \o obj \o <<34, 125>>

\* str.encode("utf-8")
utf8(cp) ==
    IF cp < 128 THEN <<cp>>
    ELSE IF cp < 2048 THEN <<192 + (cp \div 64), 128 + (cp % 64)>>
    ELSE <<224 + (cp \div 4096), 128 + ((cp \div 64) % 64), 128 + (cp % 64)>>
RECURSIVE encode(_)
encode(str) == IF str = <<>> THEN <<>> ELSE utf8(Head(str)) \o encode(Tail(str))

\* bytes.decode("utf-8"); <<-1>> stands for UnicodeDecodeError
RECURSIVE decode(_)
decode(bytes) ==
    IF bytes = <<>> THEN <<>>
    ELSE LET b == bytes[1]
             w == IF b < 128 THEN 1 ELSE IF b < 224 THEN 2 ELSE 3
         IN  IF b \in 128..191 \/ Len(bytes) < w THEN <<-1>>
             ELSE LET cp == CASE w = 1 -> b
                              [] w = 2 -> (b - 192) * 64 + (bytes[2] - 128)
                              [] w = 3 -> (b - 224) * 4096 + (bytes[2] - 128) * 64
                                              + (bytes[3] - 128)
                      rest == decode(SubSeq(bytes, w + 1, Len(bytes)))
                  IN  IF rest # <<>> /\ rest[Len(rest)] = -1 THEN <<-1>> ELSE <<cp>> \o rest

\* json.loads: the text of the object, or None for JSONDecodeError
json_loads(str) ==
    IF /\ Len(str) >= 4
       /\ SubSeq(str, 1, 2) = <<123, 34>>
       /\ SubSeq(str, Len(str) - 1, Len(str)) = <<34, 125>>
       /\ \A i \in 3..(Len(str) - 2) : str[i] \in Chars
      THEN Some(SubSeq(str, 3, Len(str) - 2))
      ELSE None

\* struct.pack("!I", n) and struct.unpack("!I", raw)
pack(n) ==
    <<(n \div 16777216) % 256, (n \div 65536) % 256, (n \div 256) % 256, n % 256>>
unpack(raw) == raw[1] * 16777216 + raw[2] * 65536 + raw[3] * 256 + raw[4]

\* (mutation of send_msg: the prefix counts characters, not bytes)
send_msg_chars(obj) ==
    pack(Len(json_dumps(obj))) \o encode(json_dumps(obj))

\* send_msg: data = json.dumps(obj).encode("utf-8"); header = pack(len(data));
\* conn.sendall(header + data)
send_msg(obj) ==
    LET data == encode(json_dumps(obj)) IN pack(Len(data)) \o data

\* rpc_call_tarot: data = json.dumps(payload).encode("utf-8");
\* header = struct.pack("!I", len(data)); conn.sendall(header + data)
rpc_call_frame(payload) ==
    LET data == encode(json_dumps(payload)) IN pack(Len(data)) \o data

\* the frame that the reader's peer writes
PeerFrame(side, obj) == IF side = "server" THEN rpc_call_frame(obj) ELSE send_msg(obj)

\* rpc_call_tarot(..., timeout=600.0): the time-out of each socket operation;
\* an operation that succeeds took no time or just less than the time-out
RpcTimeout == 600
Durations == {0, RpcTimeout - 1}

\* no frame is being read
FIdle ==
    /\ fside = "none"
    /\ fobj = <<>>
    /\ fcut = 0
    /\ fstream = <<>>
    /\ fbuf = <<>>
    /\ fneed = 0
    /\ fpc = "idle"
    /\ fres = None
    /\ ferr = None
    /\ felapsed = 0
    /\ freads = 0

\* The peer writes the frame of some object and closes after fcut bytes of
\* it (all of them, or fewer); recv_msg starts with recvall(conn, 4), and
\* rpc_call_tarot starts with the connect.
FStart ==
    /\ fside \in {"server", "client"}
    /\ fobj \in Texts
    /\ fcut \in 0..Len(PeerFrame(fside, fobj))
    /\ fstream = SubSeq(PeerFrame(fside, fobj), 1, fcut)
    /\ fbuf = <<>>
    /\ fneed = 4
    /\ fpc = IF fside = "client" THEN "connect" ELSE "len"
    /\ fres = None
    /\ ferr = None
    /\ felapsed = 0
    /\ freads = 0

\* socket.create_connection((host, port), timeout=timeout) returns
FConnect(d) ==
    /\ fpc = "connect"
    /\ fpc' = "send"
    /\ felapsed' = felapsed + d
    /\ UNCHANGED <<freads, fside, fobj, fcut, fstream, fbuf, fneed, fres, ferr>>
    /\ UNCHANGED <<fdvars, wkvars>>

\* conn.sendall(header + data) returns
FSendAll(d) ==
    /\ fpc = "send"
    /\ fpc' = "len"
    /\ felapsed' = felapsed + d
    /\ UNCHANGED <<freads, fside, fobj, fcut, fstream, fbuf, fneed, fres, ferr>>
    /\ UNCHANGED <<fdvars, wkvars>>

\* a socket operation of rpc_call_tarot runs into the time-out of the socket
FTimeout ==
    /\ fside = "client"
    /\ fpc \in {"connect", "send", "len", "body"}
    /\ fpc' = "raised"
    /\ ferr' = Some("timeout")
    /\ felapsed' = felapsed + RpcTimeout
    /\ UNCHANGED <<freads, fside, fobj, fcut, fstream, fbuf, fneed, fres>>
    /\ UNCHANGED <<fdvars, wkvars>>

\* recvall / _recvall, one turn of the loop: chunk = conn.recv(n - len(buf))
\* returns k bytes; buf += chunk.  When buf is full recvall returns: after the
\* prefix, (msg_len,) = unpack(raw_len) and recvall(conn, msg_len) begins (it
\* returns at once when msg_len is 0); after the body, raw is complete.
RecvChunk(k, d) ==
    /\ fpc \in {"len", "body"}
    /\ k \in 1..(fneed - Len(fbuf))
    /\ k <= Len(fstream)
    /\ fside = "server" => d = 0
    /\ felapsed' = felapsed + d
    /\ fstream' = SubSeq(fstream, k + 1, Len(fstream))
    /\ LET buf == fbuf \o SubSeq(fstream, 1, k) IN
         IF Len(buf) < fneed
           THEN fbuf' = buf /\ UNCHANGED <<fneed, fpc>>
           ELSE IF fpc = "len"
           THEN /\ fbuf' = <<>>
                /\ fneed' = unpack(buf)
                /\ fpc' = IF unpack(buf) = 0 THEN "loads" ELSE "body"
           ELSE /\ fbuf' = buf
                /\ fpc' = "loads"
                /\ UNCHANGED fneed
    /\ UNCHANGED <<fside, fobj, fcut, fres, ferr>>
    /\ freads' = freads + 1
    /\ UNCHANGED <<fdvars, wkvars>>

\* (mutation of RecvEof: `if not chunk: break', recvall returns what it has)
RecvEofReturnsPartial ==
    /\ fpc \in {"len", "body"}
    /\ Len(fbuf) < fneed
    /\ fstream = <<>>
    /\ fpc' = "loads"
    /\ UNCHANGED <<freads, fside, fobj, fcut, fstream, fbuf, fneed, fres, ferr, felapsed>>
    /\ UNCHANGED <<fdvars, wkvars>>

\* recvall / _recvall: the peer has closed, conn.recv returns b"";
\* if not chunk: raise ConnectionError("socket closed")
RecvEof ==
    /\ fpc \in {"len", "body"}
    /\ Len(fbuf) < fneed
    /\ fstream = <<>>
    /\ fpc' = "raised"
    /\ ferr' = Some("ConnectionError")
    /\ UNCHANGED <<freads, fside, fobj, fcut, fstream, fbuf, fneed, fres, felapsed>>
    /\ UNCHANGED <<fdvars, wkvars>>

\* return json.loads(raw.decode("utf-8"))
Loads ==
    /\ fpc = "loads"
    /\ LET obj == json_loads(decode(fbuf)) IN
         IF obj = None
           THEN fpc' = "raised" /\ ferr' = Some("JSONDecodeError") /\ UNCHANGED fres
           ELSE fpc' = "returned" /\ fres' = obj /\ UNCHANGED ferr
    /\ UNCHANGED <<freads, fside, fobj, fcut, fstream, fbuf, fneed, felapsed>>
    /\ UNCHANGED <<fdvars, wkvars>>

\* ======================================================================
\*                           specifications
\* ======================================================================
Next ==
    \/ Tick
    \/ \E h \in Handlers : \E body \in Bodies : SubmitRecv(h, body)
    \/ \E h \in Handlers : SubmitStore(h)
    \/ \E h \in Handlers : SubmitSpawn(h)
    \/ \E h \in Handlers : SubmitRespond(h)
    \/ \E h \in Handlers : HandlerEnd(h)
    \/ \E h \in Handlers : \E id \in JobIds : PollRecv(h, id)
    \/ \E h \in Handlers : PollGet(h)
    \/ \E h \in Handlers : PollReadStatus(h)
    \/ \E h \in Handlers : PollReadResult(h)
    \/ \E h \in Handlers : PollReadStarted(h)
    \/ \E h \in Handlers : PollReadFinished(h)
    \/ \E j \in JobIds : WEnter1(j)
    \/ \E j \in JobIds : WStatus(j)
    \/ \E j \in JobIds : WStarted(j)
    \/ \E j \in JobIds : \E r \in RpcResponses : RpcOk(j, r)
    \/ \E j \in JobIds : \E k \in RpcFailures : RpcFail(j, k)
    \/ \E j \in JobIds : WExcept(j)
    \/ \E j \in JobIds : WEnter2(j)
    \/ \E j \in JobIds : WDone(j)
    \/ \E j \in JobIds : WResult(j)
    \/ \E j \in JobIds : WFinished(j)

\* the Front Door under a clock that also produces the boundary ages
StoreNext ==
    \/ \E d \in {1, ttl_seconds} : TickBy(d)
    \/ \E h \in Handlers : \E body \in Bodies : SubmitRecv(h, body)
    \/ \E h \in Handlers : SubmitStore(h)
    \/ \E h \in Handlers : SubmitSpawn(h)
    \/ \E h \in Handlers : SubmitRespond(h)
    \/ \E h \in Handlers : HandlerEnd(h)
    \/ \E h \in Handlers : \E id \in JobIds : PollRecv(h, id)
    \/ \E h \in Handlers : PollGet(h)
    \/ \E h \in Handlers : PollReadStatus(h)
    \/ \E h \in Handlers : PollReadResult(h)
    \/ \E h \in Handlers : PollReadStarted(h)
    \/ \E h \in Handlers : PollReadFinished(h)
    \/ \E j \in JobIds : WEnter1(j)
    \/ \E j \in JobIds : WStatus(j)
    \/ \E j \in JobIds : WStarted(j)
    \/ \E j \in JobIds : \E r \in RpcResponses : RpcOk(j, r)
    \/ \E j \in JobIds : \E k \in RpcFailures : RpcFail(j, k)
    \/ \E j \in JobIds : WExcept(j)
    \/ \E j \in JobIds : WEnter2(j)
    \/ \E j \in JobIds : WDone(j)
    \/ \E j \in JobIds : WResult(j)
    \/ \E j \in JobIds : WFinished(j)

WorkerNext ==
    \/ \E c \in Conns : \E req \in RpcRequests : Accept(c, req)
    \/ \E c \in Conns : HandleRecv(c)
    \/ \E c \in Conns : GmFast(c)
    \/ \E c \in Conns : GmLock(c)
    \/ \E c \in Conns : \E loaded \in BOOLEAN : GmTok(c, loaded)
    \/ \E c \in Conns : \E loaded \in BOOLEAN : GmModel(c, loaded)
    \/ \E c \in Conns : GmEval(c)
    \/ \E c \in Conns : GmReturn(c)
    \/ \E c \in Conns : Template(c)
    \/ \E c \in Conns : Tokenize(c)
    \/ \E c \in Conns : Embed(c)
    \/ \E c \in Conns : GenLock(c)
    \/ \E c \in Conns : GenerateReturn(c)
    \/ \E c \in Conns : GenerateRaise(c)
    \/ \E c \in Conns : Decode(c)
    \/ \E c \in Conns : \E outcome \in SendOutcomes : HandleSend(c, outcome)
    \/ \E c \in Conns : \E sent \in BOOLEAN : HandleExcept(c, sent)
    \/ \E c \in Conns : HandleClose(c)

\* a connection of the worker comes from a call of rpc_call_tarot or from
\* another client program: connection k is kept for call k
CallBegin(k, payload) == cpc[k] = "idle" /\ CallStart(k, payload)
AcceptOther(c, req) == kpc[c] = "idle" /\ Accept(c, req)

\* calls of rpc_call_tarot and the worker's handlers of their connections
ConnNext ==
    \/ \E k \in CallIds : \E payload \in RpcPayloads : CallBegin(k, payload)
    \/ \E k \in CallIds : \E r \in ConnectResults : CallConnect(k, r)
    \/ \E k \in CallIds : \E ok \in BOOLEAN : CallSend(k, ok)
    \/ \E k \in CallIds : \E what \in {"frame", "json", "text", "eof"} : CallRecv(k, what)
    \/ \E k \in CallIds : CallTimeout(k)
    \/ \E k \in CallIds : CallLoads(k)
    \/ \E k \in CallIds : CallExit(k)
    \/ \E c \in CallIds : \E req \in RpcRequests : AcceptOther(c, req)
    \/ \E c \in CallIds : HandleRecv(c)
    \/ \E c \in CallIds : GmFast(c)
    \/ \E c \in CallIds : GmLock(c)
    \/ \E c \in CallIds : \E loaded \in BOOLEAN : GmTok(c, loaded)
    \/ \E c \in CallIds : \E loaded \in BOOLEAN : GmModel(c, loaded)
    \/ \E c \in CallIds : GmEval(c)
    \/ \E c \in CallIds : GmReturn(c)
    \/ \E c \in CallIds : Template(c)
    \/ \E c \in CallIds : Tokenize(c)
    \/ \E c \in CallIds : Embed(c)
    \/ \E c \in CallIds : GenLock(c)
    \/ \E c \in CallIds : GenerateReturn(c)
    \/ \E c \in CallIds : GenerateRaise(c)
    \/ \E c \in CallIds : Decode(c)
    \/ \E c \in CallIds : \E outcome \in SendOutcomes : HandleSend(c, outcome)
    \/ \E c \in CallIds : \E sent \in BOOLEAN : HandleExcept(c, sent)
    \/ \E c \in CallIds : HandleClose(c)

\* both processes: jobs from submit to done, each with its call of
\* rpc_call_tarot and the worker's handler of that call's connection (the
\* handler's call of ask_tarot is one step here; the worker is what listens
\* on the port; a call fails by a refused connect, a time-out or the
\* handler closing without a response)
SystemNext ==
    \/ Tick
    \/ \E h \in Handlers : \E body \in PaddedBodies : SubmitRecv(h, body)
    \/ \E h \in Handlers : SubmitStore(h)
    \/ \E h \in Handlers : SubmitSpawn(h)
    \/ \E h \in Handlers : SubmitRespond(h)
    \/ \E h \in Handlers : HandlerEnd(h)
    \/ \E j \in JobIds : WEnter1(j)
    \/ \E j \in JobIds : WStatus(j)
    \/ \E j \in JobIds : WStarted(j)
    \/ \E j \in JobIds : JobCall(j)
    \/ \E j \in JobIds : \E r \in {"worker", "ConnectionRefusedError"} : CallConnect(j, r)
    \/ \E j \in JobIds : CallSend(j, TRUE)
    \/ \E j \in JobIds : \E what \in {"frame", "eof"} : CallRecv(j, what)
    \/ \E j \in JobIds : CallTimeout(j)
    \/ \E j \in JobIds : CallLoads(j)
    \/ \E j \in JobIds : CallExit(j)
    \/ \E j \in JobIds : JobCallReturn(j)
    \/ \E j \in JobIds : JobCallRaise(j)
    \/ \E j \in JobIds : WExcept(j)
    \/ \E j \in JobIds : WEnter2(j)
    \/ \E j \in JobIds : WDone(j)
    \/ \E j \in JobIds : WResult(j)
    \/ \E j \in JobIds : WFinished(j)
    \/ \E c \in JobIds : HandleRecv(c)
    \/ \E c \in JobIds : AskTarotReturn(c)
    \/ \E c \in JobIds : AskTarotRaise(c, "generate")
    \/ \E c \in JobIds : \E outcome \in {"sent", "broken"} : HandleSend(c, outcome)
    \/ \E c \in JobIds : \E sent \in BOOLEAN : HandleExcept(c, sent)
    \/ \E c \in JobIds : HandleClose(c)

\* a submission arrives while no job is on its way
SubmitAlone(h, body) ==
    /\ \A j \in JobIds : wpc[j] \in {"unborn", "end"} /\ cpc[j] \in {"idle", "closed"}
    /\ SubmitRecv(h, body)

\* a submission on its way to the worker: submit, the job thread, its call
\* and the worker's handler, with every body of SubmitInputs, one job at a
\* time and no failure of the transport or of the inference
RelayNext ==
    \/ \E h \in Handlers : \E body \in SubmitInputs : SubmitAlone(h, body)
    \/ \E h \in Handlers : SubmitStore(h)
    \/ \E h \in Handlers : SubmitSpawn(h)
    \/ \E h \in Handlers : SubmitRespond(h)
    \/ \E h \in Handlers : HandlerEnd(h)
    \/ \E j \in JobIds : WEnter1(j)
    \/ \E j \in JobIds : WStatus(j)
    \/ \E j \in JobIds : WStarted(j)
    \/ \E j \in JobIds : JobCall(j)
    \/ \E j \in JobIds : CallConnect(j, "worker")
    \/ \E j \in JobIds : CallSend(j, TRUE)
    \/ \E j \in JobIds : CallRecv(j, "frame")
    \/ \E j \in JobIds : CallLoads(j)
    \/ \E j \in JobIds : CallExit(j)
    \/ \E j \in JobIds : JobCallReturn(j)
    \/ \E j \in JobIds : WEnter2(j)
    \/ \E j \in JobIds : WDone(j)
    \/ \E j \in JobIds : WResult(j)
    \/ \E j \in JobIds : WFinished(j)
    \/ \E c \in JobIds : HandleRecv(c)
    \/ \E c \in JobIds : AskTarotReturn(c)
    \/ \E c \in JobIds : HandleSend(c, "sent")
    \/ \E c \in JobIds : HandleClose(c)

\* the worker under a stream of valid requests that never ends: every load
\* succeeds, every generate call returns, every response is sent
ValidRequest == RpcReq(ModeWord("love"), Str(0, "q", MinQuestion, 0), EmptyStr)
ArrivalNext ==
    \/ \E c \in Conns : Accept(c, ValidRequest)
    \/ \E c \in Conns : AcceptLater(c, ValidRequest)
    \/ \E c \in Conns : HandleRecv(c)
    \/ \E c \in Conns : GmFast(c)
    \/ \E c \in Conns : GmLock(c)
    \/ \E c \in Conns : GmTok(c, TRUE)
    \/ \E c \in Conns : GmModel(c, TRUE)
    \/ \E c \in Conns : GmEval(c)
    \/ \E c \in Conns : GmReturn(c)
    \/ \E c \in Conns : Template(c)
    \/ \E c \in Conns : Tokenize(c)
    \/ \E c \in Conns : Embed(c)
    \/ \E c \in Conns : GenLock(c)
    \/ \E c \in Conns : GenerateReturn(c)
    \/ \E c \in Conns : Decode(c)
    \/ \E c \in Conns : HandleSend(c, "sent")
    \/ \E c \in Conns : HandleClose(c)

\* a step of the handler thread of connection c
HandlerStep(c) ==
    \/ HandleRecv(c)
    \/ GmFast(c)
    \/ GmLock(c)
    \/ GmTok(c, TRUE)
    \/ GmModel(c, TRUE)
    \/ GmEval(c)
    \/ GmReturn(c)
    \/ Template(c)
    \/ Tokenize(c)
    \/ Embed(c)
    \/ GenLock(c)
    \/ GenerateReturn(c)
    \/ Decode(c)
    \/ HandleSend(c, "sent")
    \/ HandleClose(c)

\* the reading of one frame
FrameNext ==
    \/ \E d \in Durations : FConnect(d)
    \/ \E d \in Durations : FSendAll(d)
    \/ FTimeout
    \/ \E k \in 1..(MaxChars * 3 + 4) : \E d \in Durations : RecvChunk(k, d)
    \/ RecvEof
    \/ Loads

Init == FDInit /\ WkInit /\ FIdle
FrameInit == FDInit /\ WkInit /\ FStart

\* the Front Door process
Spec == Init /\ [][Next]_vars

\* the worker process
WorkerSpec == Init /\ [][WorkerNext]_vars

\* the RPC exchange: rpc_call_tarot on one side, handle_client on the other
ConnSpec == Init /\ [][ConnNext]_vars

\* the Front Door and the worker together, joined by the RPC connections
SystemSpec == Init /\ [][SystemNext]_vars

\* the Front Door process, records aging to the boundary of the window
StoreSpec == Init /\ [][StoreNext]_vars

\* the worker under continual arrivals: a thread that can take a step
\* without interruption takes one (threading.Lock promises no more: which of
\* the waiting threads gets a released lock is not defined)
ArrivalSpec ==
    /\ Init
    /\ [][ArrivalNext]_vars
    /\ \A c \in Conns : WF_vars(HandlerStep(c))

\* submissions relayed to the worker
RelaySpec == Init /\ [][RelayNext]_vars

\* one frame written by one side and read by the other
FrameSpec == FrameInit /\ [][FrameNext]_vars

\* the Front Door process with fair scheduling: a background thread or a
\* submitting handler thread that can take a step eventually takes one, and
\* an RPC call in progress eventually returns or raises
WorkerStep(j) ==
    \/ WEnter1(j) \/ WStatus(j) \/ WStarted(j)
    \/ (\E r \in RpcResponses : RpcOk(j, r))
    \/ (\E k \in RpcFailures : RpcFail(j, k))
    \/ WExcept(j) \/ WEnter2(j) \/ WDone(j) \/ WResult(j) \/ WFinished(j)
SubmitStep(h) == SubmitStore(h) \/ SubmitSpawn(h) \/ SubmitRespond(h)
FairSpec ==
    /\ Spec
    /\ \A j \in JobIds : WF_vars(WorkerStep(j))
    /\ \A h \in Handlers : WF_vars(SubmitStep(h))

\* ======================================================================
\*                         properties: Front Door
\* ======================================================================
Rank(status) ==
    CASE status = "unborn" -> 0
      [] status = "unread" -> 0
      [] status = "pending" -> 1
      [] status = "running" -> 2
      [] status = "done" -> 3

IsPollDone(h) == hpc[h] = "done" /\ hreq[h].kind = "poll"
IsPoll200(h) == IsPollDone(h) /\ hresp[h].code = 200
IsSubmitDone(h) == hpc[h] = "done" /\ hreq[h] \in ValidBodies

StatusStep(j) ==
    \/ job'[j].status = job[j].status
    \/ job[j].status = "unborn" /\ job'[j].status = "pending" /\ j \notin JOBS
    \/ job[j].status = "pending" /\ job'[j].status = "running"
    \/ job[j].status = "running" /\ job'[j].status = "done"
PollNotAhead ==
    \A h \in Handlers :
        hpc[h] \in {"p_result", "p_started", "p_finished", "done"} /\ href[h] # None
            => /\ hview[h].status \in {"pending", "running", "done"}
               /\ Rank(hview[h].status) <= Rank(job[href[h][1]].status)

\* C1: the status of a job in the table only moves pending -> running -> done,
\* one step at a time, and never leaves done; and the status a successful
\* poll shows is never ahead of the table's, so that later polls of the same
\* id never show an earlier status.
C1_StatusForwardOnly ==
    [][\A j \in JobIds : StatusStep(j)]_vars /\ []PollNotAhead
C1_Witness ==
    \E h \in Handlers :
        /\ IsPoll200(h)
        /\ hresp[h].body.status = "done"
        /\ hjid[h] \in JOBS
        /\ job[hjid[h]].status = "done"

\* C5 (as claimed): every job that was created reaches status done, so the
\* background thread of a job never ends with the job short of done.
C5_WorkerEndsWithDone ==
    \A j \in JobIds : wpc[j] = "end" => job[j].status = "done"
\* C5 (amended): every job in the table eventually either has status done in
\* the table or is no longer in the table (evicted by a later submit).
C5_EventuallyDoneOrEvicted ==
    \A j \in JobIds :
        (j \in JOBS) ~> ((j \in JOBS /\ job[j].status = "done") \/ j \notin JOBS)
C5_Witness ==
    \E j \in JobIds :
        /\ wpc[j] = "end"
        /\ j \notin JOBS
        /\ job[j].status = "running"

\* C6: after a valid submit has stored the job and started the background
\* thread, its response {ok: true, job_id} can be sent at once, whatever the
\* background thread is doing; when it is sent the job exists and the
\* thread was started.
C6_SubmitDoesNotWait ==
    \A h \in Handlers :
        /\ hpc[h] = "s_respond" => ENABLED SubmitRespond(h)
        /\ IsSubmitDone(h) =>
              /\ hresp[h] = send_json(200, [ok |-> TRUE, job_id |-> hjid[h]])
              /\ job[hjid[h]].status # "unborn"
              /\ wpc[hjid[h]] # "unborn"
C6_Witness ==
    \E h \in Handlers :
        /\ IsSubmitDone(h)
        /\ hresp[h].code = 200
        /\ wpc[hjid[h]] = "w_rpc"
        /\ job[hjid[h]].status = "running"

\* C7 (as claimed): a malformed or out-of-range submission is answered with
\* 400 {ok: false, error}, draws no job id, stores no job and starts no thread.
C7_BadSubmitGets400 ==
    \A h \in Handlers :
        hreq[h] \in BadBodies =>
            /\ hpc[h] = "done"
            /\ hresp[h].code = 400
            /\ hresp[h].body.ok = FALSE
            /\ hjid[h] = 0

\* C8: a failed RPC call never leaves run_tarot_job as an exception; its
\* result is {ok: false, error: "rpc failed: <kind>"}, and a background thread
\* that ends while its record is in the table leaves it done with a result,
\* after a failed call as after a successful one.
C8_RpcFailureBecomesResult ==
    \A j \in JobIds :
        /\ wpc[j] # "raised"
        /\ wexc[j] # None /\ wpc[j] \in {"w_lock2", "w_done", "w_result", "w_finished"}
              => wres[j] = Some(RpcError(wexc[j][1]))
        /\ wpc[j] = "w_finished" => job[j].result = wres[j] /\ job[j].status = "done"
        /\ wpc[j] = "end" /\ j \in JOBS
              => /\ job[j].status = "done"
                 /\ job[j].result # None
                 /\ job[j].finished_at # None
C8_Witness ==
    \E j \in JobIds :
        /\ wpc[j] = "end"
        /\ j \in JOBS
        /\ job[j].result = Some(RpcError("timeout"))

\* C9 (as claimed): a successful poll response is the record at one instant:
\* result and finished_at only with status done, started_at only with
\* status running or done.
C9_PollIsSnapshot ==
    \A h \in Handlers :
        IsPoll200(h) =>
            LET v == hresp[h].body
            IN  /\ v.result # None => v.status = "done"
                /\ v.finished_at # None => v.status = "done"
                /\ v.started_at # None => v.status \in {"running", "done"}

PollLookup(h) ==
    hpc[h] = "p_lock" /\ hpc'[h] # "p_lock" =>
        /\ (hpc'[h] = "done" /\ hresp'[h].code = 404) <=> hjid[h] \notin JOBS
        /\ hjid[h] \in JOBS => hpc'[h] = "p_status" /\ href'[h] = Some(hjid[h])
PollChangesNothing(h) ==
    hreq[h].kind = "poll" /\ hpc'[h] # hpc[h] => JOBS' = JOBS /\ job' = job
PollAnswer ==
    \A h \in Handlers :
        IsPollDone(h) =>
            IF href[h] = None
              THEN hresp[h] = send_json(404, [ok |-> FALSE, error |-> "job not found"])
              ELSE /\ hresp[h].code = 200
                   /\ DOMAIN hresp[h].body =
                        {"status", "result", "created_at", "started_at", "finished_at"}

\* C10: a poll answers 404 "job not found" exactly when the id is not a key
\* of the table at the lookup; otherwise it answers 200 with exactly status,
\* result, created_at, started_at, finished_at; no step of a poll changes
\* the table or a record.
C10_PollNotFoundOrView ==
    [][\A h \in Handlers : PollLookup(h) /\ PollChangesNothing(h)]_vars /\ []PollAnswer
C10_Witness ==
    \E h \in Handlers :
        /\ IsPollDone(h)
        /\ hresp[h].code = 404
        /\ job[hjid[h]].status # "unborn"

\* ======================================================================
\*                       properties: worker process
\* ======================================================================
InGenerate == {c \in Conns : cpc[c] = "generate"}

\* C2: at most one connection thread is inside model.generate at any time,
\* and while one is, a thread that has reached the generate lock cannot
\* enter.
C2_OneGenerateAtATime ==
    /\ Cardinality(InGenerate) <= 1
    /\ \A c \in Conns :
          cpc[c] = "gen_lock" /\ InGenerate # {} => ~ENABLED GenLock(c)
C2_Witness ==
    \E c, d \in Conns :
        /\ c # d
        /\ cpc[c] = "generate"
        /\ cpc[d] = "gen_lock"

\* the steps of generate_response_qwen that use the shared model or tokenizer
SharedUse == {"template", "tokenize", "embed", "generate", "decode"}

\* C3 (as claimed): a thread is inside a step that uses the shared model or
\* tokenizer only while it holds the generate lock, so no two threads are
\* inside such steps at the same time.
C3_SharedUseUnderLock ==
    /\ \A c \in Conns : cpc[c] \in SharedUse => _GENERATE_LOCK = Conn(c)
    /\ Cardinality({c \in Conns : cpc[c] \in SharedUse}) <= 1

Returned(c) == cpc[c] \in SharedUse \cup {"gen_lock"}

\* C4: the tokenizer and the model are each constructed at most once, and
\* every thread that get_model_and_tokenizer returned to holds those
\* instances.
C4_LoadedOnce ==
    /\ tokLoads <= 1
    /\ modelLoads <= 1
    /\ \A c \in Conns :
          Returned(c) =>
              /\ cmodel[c] # None /\ cmodel[c] = _MODEL
              /\ ctok[c] # None /\ ctok[c] = _TOKENIZER
    /\ \A c, d \in Conns :
          Returned(c) /\ Returned(d) => cmodel[c] = cmodel[d] /\ ctok[c] = ctok[d]
C4_Witness ==
    \E c, d \in Conns :
        /\ c # d
        /\ Returned(c)
        /\ cpc[d] = "gm_tok"
        /\ _TOKENIZER # None
        /\ _MODEL # None

\* ======================================================================
\*                       properties: RPC exchange
\* ======================================================================
\* the handler has done its reading and writing and is about to close; the
\* handler thread has ended
HandlerDone(c) == cpc[c] = "finally"
HandlerEnded(c) == cpc[c] = "closed"
CallEnded(k) == kpc[k] \in {"returned", "raised"}

\* C11 (as claimed): every handler that has ended read exactly one request
\* frame and wrote exactly one response frame, and every call that has ended
\* wrote exactly one request frame and read exactly one response frame.
C11_ExactlyOnePair ==
    /\ \A c \in Conns :
          HandlerEnded(c) => crecvd[c] = 1 /\ Len(cwire[c]) = 1
    /\ \A k \in Conns :
          CallEnded(k) => kwrote[k] = 1 /\ kread[k] = 1

\* C11 (amended): no connection carries a second request or a second
\* response.  A handler that has ended read one request frame unless the
\* peer closed inside it, and wrote one response frame unless a send on the
\* connection failed; a call that returned wrote one request frame and read
\* one response frame.
C11_AtMostOnePair ==
    /\ \A c \in Conns :
          /\ crecvd[c] <= 1
          /\ Len(cwire[c]) <= 1
          /\ HandlerDone(c) => crecvd[c] = 1 \/ creq[c] = Truncated
          /\ HandlerDone(c) \/ HandlerEnded(c) => Len(cwire[c]) = 1 \/ cbroken[c]
    /\ \A k \in Conns :
          /\ kwrote[k] <= 1
          /\ kread[k] <= 1
          /\ kpc[k] = "returned" => kwrote[k] = 1 /\ kread[k] = 1
C11_Witness ==
    \E k \in CallIds :
        /\ kpc[k] = "returned"
        /\ kpeer[k] = "worker"
        /\ HandlerEnded(k)
        /\ crecvd[k] = 1
        /\ Len(cwire[k]) = 1
        /\ ~cwire[k][1].ok

\* the requests that handle_client rejects
BadMode(c) ==
    /\ creq[c].kind = "frame"
    /\ strip(get(creq[c], "mode")) \notin AllowedModeStrs
ShortQuestion(c) ==
    /\ creq[c].kind = "frame"
    /\ strip(get(creq[c], "mode")) \in AllowedModeStrs
    /\ len(strip(get(creq[c], "question"))) < MinQuestion
Rejection(c) ==
    [ok |-> FALSE, error |-> IF BadMode(c) THEN "bad mode" ELSE "question too short"]
\* the steps of a handler thread inside ask_tarot
InAskTarot ==
    {"gm_fast", "gm_lock", "gm_tok", "gm_model", "gm_eval", "gm_ret",
     "template", "tokenize", "embed", "gen_lock", "generate", "decode"}

\* C12: a request with a bad mode, or with a valid mode and a question
\* shorter than 3 characters after trimming, is answered with the matching
\* error and with nothing else (exactly that one frame once the handler is
\* done, unless the send failed); ask_tarot is never called for that
\* connection and its thread never holds the model lock or the generate lock.
C12_InvalidRequestShortCircuits ==
    \A c \in Conns :
        BadMode(c) \/ ShortQuestion(c) =>
            /\ casked[c] = 0
            /\ cpc[c] \notin InAskTarot
            /\ _MODEL_LOCK # Conn(c)
            /\ _GENERATE_LOCK # Conn(c)
            /\ \A i \in 1..Len(cwire[c]) : cwire[c][i] = Rejection(c)
            /\ HandlerDone(c) => Len(cwire[c]) = 1 \/ cbroken[c]
C12_Witness ==
    \E c, d, e \in Conns :
        /\ BadMode(c) /\ HandlerDone(c)
        /\ cwire[c] = << [ok |-> FALSE, error |-> "bad mode"] >>
        /\ ShortQuestion(d) /\ HandlerDone(d)
        /\ cwire[d] = << [ok |-> FALSE, error |-> "question too short"] >>
        /\ cpc[e] = "generate"

\* the handler has caught an exception (line 100)
Caught(c) == cexc[c] # None /\ HandlerDone(c)

\* C13: an exception raised while a request is served does not leave the
\* handler.  The connection is answered with {ok: false, error: "<kind>:
\* <message>"} and nothing else (exactly that frame once the handler is
\* done, unless the send failed), the failed thread holds no lock, and
\* another connection can still be accepted and served.
C13_ExceptionBecomesErrorResponse ==
    \A c \in Conns :
        /\ cpc[c] \in {"except", "finally", "closed"} =>
              _MODEL_LOCK # Conn(c) /\ _GENERATE_LOCK # Conn(c)
        /\ Caught(c) =>
              /\ \A i \in 1..Len(cwire[c]) : cwire[c][i] = HandlerError(cexc[c][1])
              /\ Len(cwire[c]) = 1 \/ cbroken[c]
              /\ \A d \in Conns : \A req \in RpcRequests :
                    cpc[d] = "idle" => ENABLED Accept(d, req)
              /\ \A d \in Conns :
                    cpc[d] = "gm_lock" /\ _MODEL_LOCK = Free => ENABLED GmLock(d)
              /\ \A d \in Conns :
                    cpc[d] = "gen_lock" /\ _GENERATE_LOCK = Free => ENABLED GenLock(d)
C13_Witness ==
    \E c, d \in Conns :
        /\ c # d
        /\ HandlerDone(c)
        /\ casked[c] = 1
        /\ cexc[c] = Some("RuntimeError: generate failed")
        /\ cwire[c] = << HandlerError("RuntimeError: generate failed") >>
        /\ cpc[d] = "generate"

\* C14: a handler that has ended has closed its connection, whichever way
\* it went (response sent, request rejected, request unreadable or cut
\* short, exception caught, send failed), and a call of rpc_call_tarot that
\* has returned or raised has no open socket: the socket is closed, or the
\* connect failed and there never was one.
C14_ConnectionAlwaysClosed ==
    /\ \A c \in Conns :
          /\ HandlerEnded(c) => csock[c] = "closed"
          /\ csock[c] = "closed" => HandlerEnded(c)
    /\ \A k \in Conns :
          /\ CallEnded(k) => ksock[k] # "open"
          /\ CallEnded(k) /\ kpeer[k] # "none" => ksock[k] = "closed"
          /\ ksock[k] = "closed" => CallEnded(k)
C14_Witness ==
    \E k, c \in CallIds :
        /\ kpc[k] = "raised"
        /\ kexc[k] = Some("JSONDecodeError")
        /\ ksock[k] = "closed"
        /\ HandlerEnded(c)
        /\ cbroken[c]
        /\ cwire[c] = <<>>
        /\ csock[c] = "closed"

\* ======================================================================
\*                    properties: jobs and their inference
\* ======================================================================
\* the background thread of job j has got past its call of rpc_call_tarot
PastCall(j) == wpc[j] \in {"w_except", "w_lock2", "w_done", "w_result", "w_finished"}

\* C15 (as claimed): every job whose background thread has ended made
\* exactly one RPC call.
C15_ExactlyOneCallPerJob ==
    \A j \in JobIds : wpc[j] = "end" => kcalls[j] = 1

\* C15 (amended): a job's background thread never makes a second RPC call,
\* and it has made exactly one when it gets past the call, marks the job done
\* or ends, unless the record was evicted before the thread started (the job
\* is then still pending and out of the table, and no call was made).  The
\* worker calls ask_tarot at most once per connection, exactly once for the
\* request it received, and only for a call that was made.
C15_OneCallUnlessEvictedEarly ==
    \A j \in JobIds :
        /\ kcalls[j] <= 1
        /\ PastCall(j) => kcalls[j] = 1
        /\ job[j].status = "done" => kcalls[j] = 1
        /\ wpc[j] = "end" =>
              \/ kcalls[j] = 1
              \/ kcalls[j] = 0 /\ job[j].status = "pending" /\ j \notin JOBS
        /\ casked[j] <= kcalls[j]
        /\ crecvd[j] = 1 /\ cpc[j] # "recv" => casked[j] = 1
        /\ crecvd[j] = 0 => casked[j] = 0
C15_Witness ==
    \E i, j \in JobIds :
        /\ i # j
        /\ wpc[i] = "end" /\ job[i].status = "done"
        /\ job[i].result = Some(RpcError("timeout"))
        /\ kcalls[i] = 1 /\ casked[i] = 1
        /\ wpc[j] = "end" /\ job[j].status = "done"
        /\ job[j].result = Some([ok |-> TRUE, answer |-> "reading"])
        /\ kcalls[j] = 1 /\ casked[j] = 1


\* ----------------------------------------------------------------------
\*                        properties: frames
\* ----------------------------------------------------------------------
FrameLen == Len(PeerFrame(fside, fobj))
FrameBody == encode(json_dumps(fobj))

\* C16 -- The time-out given to rpc_call_tarot bounds the whole call: from
\* its start, the connect, the send and the complete receive of the response
\* frame together finish or fail within `timeout'.
C16_TimeoutBoundsWholeCall ==
    fside = "client" => felapsed <= RpcTimeout

\* C17 -- Frame round trip: the frame of every object, multi-byte text
\* included, starts with the 4-byte big-endian number of BYTES of its UTF-8
\* JSON body; the reader announces that many bytes for the body and, when the
\* whole frame is delivered, in whatever partial reads, returns an object
\* equal to the one written (the only failure left is the client's time-out);
\* the client's inline encoder writes the same frame as send_msg.
C17_FrameRoundTrip ==
    /\ SubSeq(send_msg(fobj), 1, 4) = pack(Len(FrameBody))
    /\ SubSeq(send_msg(fobj), 5, Len(send_msg(fobj))) = FrameBody
    /\ rpc_call_frame(fobj) = send_msg(fobj)
    /\ fpc \in {"body", "loads"} => fneed = Len(FrameBody)
    /\ fpc = "loads" => fbuf = FrameBody
    /\ fpc = "returned" => fres = Some(fobj)
    /\ (fcut = FrameLen /\ fpc = "raised") => (fside = "client" /\ ferr = Some("timeout"))

\* a text of multi-byte characters, longer in bytes than in characters, was
\* returned intact after more reads than the two calls of recvall
C17_Witness ==
    /\ fpc = "returned"
    /\ fres = Some(<<29260, 233>>)
    /\ Len(FrameBody) > Len(json_dumps(fobj))
    /\ freads > 3

\* C18 -- If the peer closes after fewer bytes than the frame announces
\* (inside the prefix, or after the prefix of a non-empty body), the read
\* fails with an error: nothing is returned, the error is the transport
\* error of recvall (or the client's time-out), and once the bytes sent are
\* used up the reader does not wait: the end of the stream raises.
C18_TruncatedFrameFails ==
    fcut < FrameLen =>
        /\ fpc # "returned" /\ fpc # "loads"
        /\ fres = None
        /\ fpc = "raised" =>
              \/ ferr = Some("ConnectionError")
              \/ fside = "client" /\ ferr = Some("timeout")
        /\ (fpc \in {"len", "body"} /\ fstream = <<>>) =>
              (ENABLED RecvEof /\ \A k \in 1..FrameLen : ~ENABLED RecvChunk(k, 0))

\* the peer sent the prefix of a non-empty body, then closed: ConnectionError
C18_Witness ==
    /\ fside = "server"
    /\ fcut = 4
    /\ fneed > 0
    /\ fpc = "raised"
    /\ ferr = Some("ConnectionError")
    /\ fres = None


\* ----------------------------------------------------------------------
\*                     properties: the job table
\* ----------------------------------------------------------------------
SubmitDraws(h) == hpc[h] = "idle" /\ hpc'[h] = "s_lock"
SubmitInserts(h) == hpc[h] = "s_lock" /\ hpc'[h] = "s_spawn"
SubmitAnswers(h) == hpc[h] = "s_respond" /\ hpc'[h] = "done"
Age(now, k) == now - job[k].created_at[1]

\* C19 -- Each job id handed out by submit denotes exactly one job record:
\* the id a submit draws was never drawn (so never returned) before, has no
\* record and is not the id of another submit under way; the insert creates
\* the record of that id and leaves every record already in the table that
\* is not evicted as it was; the id returned is the id of the record that
\* this submit created.
C19_IdDenotesOneJob ==
    [][\A h \in Handlers :
          /\ SubmitDraws(h) =>
                /\ hjid'[h] \notin 1..issued
                /\ hjid'[h] \notin JOBS
                /\ job[hjid'[h]] = Unborn
                /\ \A g \in Handlers \ {h} :
                      hreq[g].kind = "object" => hjid'[h] # hjid[g]
          /\ SubmitInserts(h) =>
                /\ hjid[h] \notin JOBS
                /\ job[hjid[h]] = Unborn
                /\ wpc[hjid[h]] = "unborn"
                /\ job'[hjid[h]] = NewJob(hpay[h], hnow[h])
                /\ \A k \in JobIds \ {hjid[h]} : job'[k] = job[k]
                /\ JOBS' \ {hjid[h]} \subseteq JOBS
          /\ SubmitAnswers(h) =>
                /\ hresp'[h] = send_json(200, [ok |-> TRUE, job_id |-> hjid[h]])
                /\ job[hjid[h]].payload = hpay[h]
                /\ job[hjid[h]].created_at = Some(hnow[h])
    ]_vars

\* a second job has been inserted next to a first one that is done: both
\* records are in the table, the first as its thread left it
C19_Witness ==
    \E h \in Handlers :
        /\ hpc[h] = "s_spawn"
        /\ hjid[h] = 2
        /\ JOBS = {1, 2}
        /\ job[1].status = "done"
        /\ job[1].result # None
        /\ job[2] = NewJob(hpay[h], hnow[h])

\* C20 -- A record leaves the table only in the eviction run of a submit, and
\* that run removes exactly the records older than 3600 seconds at the
\* submit's timestamp, whatever their status: one aged 3600 seconds or less
\* stays, and the record the submit inserts is in the table afterwards.
C20_EvictionExactlyOlderThanTtl ==
    [][/\ \A k \in JOBS \ JOBS' : \E h \in Handlers : SubmitInserts(h)
       /\ \A h \in Handlers : SubmitInserts(h) =>
             /\ \A k \in JOBS : (k \in JOBS') <=> (Age(hnow[h], k) <= 3600)
             /\ hjid[h] \in JOBS'
    ]_vars

\* a submit has just evicted a job that is still running (its thread is in
\* the RPC call) and inserted its own record
C20_Witness ==
    \E h \in Handlers :
        /\ hpc[h] = "s_spawn"
        /\ hjid[h] = 2
        /\ JOBS = {2}
        /\ job[1].status = "running"
        /\ wpc[1] = "w_rpc"
        /\ Age(hnow[h], 1) = 3601

\* a submit has kept a record aged exactly 3600 seconds
C20_BoundaryKept ==
    \E h \in Handlers :
        /\ hpc[h] = "s_spawn"
        /\ JOBS = {1, 2}
        /\ Age(hnow[h], 1) = 3600


\* ----------------------------------------------------------------------
\*                properties: the job's background thread
\* ----------------------------------------------------------------------
\* the record of job j was in the table and is not any more
Evicted(j) == j \notin JOBS /\ job[j].status # "unborn"
\* the thread of job j enters one of its two critical sections
WorkerEnters(j) == wpc[j] \in {"w_lock1", "w_lock2"} /\ wpc'[j] # wpc[j]

\* C21 -- When the record of a job is no longer in the table as its thread
\* comes to mark it running or to complete it, the step does nothing: the
\* thread ends, the table and every record stay as they were (the id is not
\* put back, the late result is dropped), nothing is raised, and a poll of
\* the id answers 404.
C21_EvictedJobStepIsNoOp ==
    [][\A j \in JobIds :
          /\ Evicted(j) => j \notin JOBS'
          /\ (Evicted(j) /\ WorkerEnters(j)) =>
                /\ wpc'[j] = "end"
                /\ JOBS' = JOBS
                /\ job' = job
                /\ JOBS_LOCK' = JOBS_LOCK
          /\ wpc'[j] # "raised"
          /\ \A h \in Handlers :
                (hpc[h] = "p_lock" /\ hpc'[h] # "p_lock" /\ hjid[h] = j /\ Evicted(j)) =>
                    hresp'[h] = send_json(404, [ok |-> FALSE, error |-> "job not found"])
    ]_vars

\* job 1 was evicted while its RPC call ran; its thread has ended, the record
\* still says running without a result, and a poll of it was answered 404
C21_Witness ==
    /\ Evicted(1)
    /\ wpc[1] = "end"
    /\ job[1].status = "running"
    /\ job[1].result = None
    /\ \E h \in Handlers : hreq[h] = PollReq(1) /\ hresp[h].code = 404


\* the thread of job j takes a step inside one of its critical sections
WorkerWrites(j) ==
    /\ wpc[j] \in {"w_status", "w_started", "w_done", "w_result", "w_finished"}
    /\ wpc'[j] # wpc[j]
    /\ JOBS_LOCK = Bg(j)

\* C22 -- The thread of job J changes only J's record, and of it only
\* status, started_at, result and finished_at: payload and created_at stay
\* as submit wrote them, no other record changes in a step of the thread,
\* and a record changes only when submit creates it or in a step of the one
\* thread that the creating submit started (no second thread is started for
\* an id).
C22_WorkerChangesOnlyOwnRecord ==
    [][\A j \in JobIds :
          /\ job'[j] # job[j] =>
                \/ /\ job[j] = Unborn
                   /\ \E h \in Handlers : SubmitInserts(h) /\ hjid[h] = j
                \/ /\ WorkerWrites(j)
                   /\ job'[j].payload = job[j].payload
                   /\ job'[j].created_at = job[j].created_at
                   /\ \A k \in JobIds \ {j} : job'[k] = job[k]
                   /\ JOBS' = JOBS
          /\ (wpc'[j] # wpc[j] /\ wpc'[j] = "w_lock1") =>
                /\ wpc[j] = "unborn"
                /\ \E h \in Handlers : hpc[h] = "s_spawn" /\ hjid[h] = j
          /\ wpc[j] # "unborn" => wpc'[j] # "unborn"
    ]_vars

\* the thread of job 1 has completed its record while the record of job 2
\* was in the table: record 2 is as submit wrote it, record 1 kept its
\* payload and created_at
C22_Witness ==
    /\ JOBS = {1, 2}
    /\ wpc[1] = "end"
    /\ job[1].status = "done"
    /\ job[1].payload # NoPayload
    /\ job[1].created_at # None
    /\ \E h \in Handlers : hjid[h] = 2 /\ job[2] = NewJob(hpay[h], hnow[h])


\* the thread of job j is inside one of the two `with JOBS_LOCK' blocks
InCritical(j) == wpc[j] \in {"w_status", "w_started", "w_done", "w_result", "w_finished"}
\* the thread of job j is in the try block around rpc_call_tarot
InRpc(j) == wpc[j] \in {"w_rpc", "w_call", "w_except"}

\* C23 -- No Front Door thread holds the job-table lock while an RPC call is
\* in progress in it: the lock is held only by a thread inside one of its
\* two critical sections, its call runs strictly between them, and so the
\* lock is free for submits and polls whenever the threads are in their
\* calls, however many of them.
C23_NoLockAcrossRpc ==
    /\ \A j \in JobIds :
          /\ InRpc(j) => JOBS_LOCK # Bg(j)
          /\ kpc[j] \notin {"idle", "over"} => wpc[j] = "w_call"
          /\ JOBS_LOCK = Bg(j) => InCritical(j)
          /\ (InCritical(j) /\ wpc[j] \in {"w_status", "w_started"}) => kcalls[j] = 0
          /\ (InCritical(j) /\ wpc[j] \in {"w_done", "w_result", "w_finished"}) =>
                kpc[j] = "over"
    /\ (\A j \in JobIds : ~InCritical(j)) => JOBS_LOCK = Free

\* while the call of job 1 waits for its response, the submit of job 2 has
\* been through its critical section
C23_Witness ==
    /\ wpc[1] = "w_call"
    /\ kpc[1] = "recv"
    /\ job[1].status = "running"
    /\ JOBS_LOCK = Free
    /\ \E h \in Handlers : hpc[h] = "s_spawn" /\ hjid[h] = 2 /\ 2 \in JOBS


\* the three shapes of a record
PendingShape(r) ==
    r.status = "pending" /\ r.result = None /\ r.started_at = None /\ r.finished_at = None
RunningShape(r) ==
    r.status = "running" /\ r.result = None /\ r.started_at # None /\ r.finished_at = None
DoneShape(r) ==
    r.status = "done" /\ r.result # None /\ r.started_at # None /\ r.finished_at # None

\* C24 -- Whenever the job-table lock is free, every record in the table is
\* pending with result, started_at and finished_at null, or running with
\* started_at set and result and finished_at null, or done with result,
\* started_at and finished_at set; status, the timestamps and the result of
\* a record in the table change only while its thread holds the lock.
C24_RecordShapes ==
    /\ [](JOBS_LOCK = Free =>
             \A j \in JOBS :
                 PendingShape(job[j]) \/ RunningShape(job[j]) \/ DoneShape(job[j]))
    /\ [][\A j \in JOBS :
             (/\ j \in JOBS'
              /\ <<job'[j].status, job'[j].started_at, job'[j].result, job'[j].finished_at>>
                   # <<job[j].status, job[j].started_at, job[j].result, job[j].finished_at>>)
                 => JOBS_LOCK = Bg(j)
       ]_vars

\* with the lock free the table holds a done record, whose result is the
\* error of a failed call, next to a running one
C24_Witness ==
    /\ JOBS_LOCK = Free
    /\ JOBS = {1, 2}
    /\ DoneShape(job[1])
    /\ job[1].result[1].ok = FALSE
    /\ RunningShape(job[2])


\* ----------------------------------------------------------------------
\*              properties: the model and the two worker locks
\* ----------------------------------------------------------------------
\* C25 -- A caller of get_model_and_tokenizer never receives the model
\* before its initialization has completed: every model a thread got, by the
\* fast path or the slow one, had been put in evaluation mode by eval().
C25_ModelReturnedAfterEval ==
    \A c \in Conns : cmodel[c] # None => cmodel[c][1] \in evalDone


\* ----------------------------------------------------------------------
\*               properties: the two validations of a request
\* ----------------------------------------------------------------------
\* the responses with which handle_client rejects a request
Rejections ==
    { [ok |-> FALSE, error |-> "bad mode"], [ok |-> FALSE, error |-> "question too short"] }
\* handle_client's validation of request req
ServerAccepts(req) ==
    /\ strip(get(req, "mode")) \in AllowedModeStrs
    /\ len(strip(get(req, "question"))) >= MinQuestion

\* C26 -- Every payload that submit's validation accepts, once cleaned and
\* sent as the RPC request, passes the worker's validation: the request of a
\* job's call is never rejected, and no job gets "bad mode" or "question too
\* short" as its result.
C26_SubmitValidImpliesWorkerValid ==
    /\ \A h \in Handlers :
          hpc[h] = "s_lock" =>
              ServerAccepts(RpcReq(hpay[h].mode, hpay[h].question, hpay[h].information))
    /\ \A j \in JobIds :
          /\ kpay[j] # NoReq => ServerAccepts(kpay[j])
          /\ creq[j].kind = "frame" => ~BadMode(j) /\ ~ShortQuestion(j)
          /\ cresp[j] # None => cresp[j][1] \notin Rejections
          /\ \A i \in 1..Len(cwire[j]) : cwire[j][i] \notin Rejections
          /\ wres[j] # None => wres[j][1] \notin Rejections
          /\ job[j].result # None => job[j].result[1] \notin Rejections

\* a submission with padded fields and a question of exactly 3 characters
\* went through: the worker answered its request with a reading, which is
\* the job's result
C26_Witness ==
    \E j \in JobIds :
        /\ job[j].status = "done"
        /\ job[j].payload.question = Str(0, "q", MinQuestion, 0)
        /\ job[j].payload.mode = ModeWord("money")
        /\ job[j].result = Some([ok |-> TRUE, answer |-> "reading"])
        /\ crecvd[j] = 1 /\ casked[j] = 1


\* the steps inside `with _MODEL_LOCK'
InModelLock == {"gm_tok", "gm_model", "gm_eval", "gm_ret"}
GenerateFailed(c) == cexc[c] = Some("RuntimeError: generate failed")

\* C27 -- When a generate call ends by raising, the call-serializing lock is
\* released: whenever no thread is inside the generate step the lock is
\* free (its holder is always a thread inside the step), so a thread that
\* reaches the lock after a failed call can take it.
C27_GenerateLockFreedOnRaise ==
    /\ (\A c \in Conns : cpc[c] # "generate") => _GENERATE_LOCK = Free
    /\ \A c \in Conns :
          /\ _GENERATE_LOCK = Conn(c) => cpc[c] = "generate"
          /\ GenerateFailed(c) => _GENERATE_LOCK # Conn(c)
          /\ (cpc[c] = "gen_lock" /\ \A d \in Conns : cpc[d] # "generate") =>
                ENABLED GenLock(c)

\* the generate call of connection 1 has failed, and connection 2 is inside
\* generate holding the lock that 1 held
C27_Witness ==
    /\ GenerateFailed(1)
    /\ cpc[1] = "except"
    /\ cpc[2] = "generate"
    /\ _GENERATE_LOCK = Conn(2)

\* the threads that wait for a lock another thread holds
LockWaiting ==
    {c \in Conns : \/ cpc[c] = "gm_lock" /\ _MODEL_LOCK # Free
                   \/ cpc[c] = "gen_lock" /\ _GENERATE_LOCK # Free}

\* C28 -- No worker thread holds the initialization lock and the
\* call-serializing lock together: each lock is held only inside its own
\* with block, neither block requests the other lock, and so the holder of a
\* lock others wait for is never itself waiting: there is no deadlock on
\* the two locks.
C28_NeverBothLocks ==
    /\ \A c \in Conns :
          /\ ~(_MODEL_LOCK = Conn(c) /\ _GENERATE_LOCK = Conn(c))
          /\ _MODEL_LOCK = Conn(c) => cpc[c] \in InModelLock
          /\ _GENERATE_LOCK = Conn(c) => cpc[c] = "generate"
          /\ cpc[c] = "gen_lock" => _MODEL_LOCK # Conn(c)
          /\ cpc[c] = "gm_lock" => _GENERATE_LOCK # Conn(c)
    /\ \A c \in LockWaiting :
          \E d \in Conns \ LockWaiting :
              \/ /\ cpc[c] = "gm_lock" /\ _MODEL_LOCK = Conn(d)
                 /\ ENABLED (GmTok(d, TRUE) \/ GmModel(d, TRUE) \/ GmEval(d) \/ GmReturn(d))
              \/ /\ cpc[c] = "gen_lock" /\ _GENERATE_LOCK = Conn(d)
                 /\ ENABLED GenerateReturn(d)

\* both locks are held, by different threads, and a third thread waits
C28_Witness ==
    /\ _MODEL_LOCK # Free
    /\ _GENERATE_LOCK # Free
    /\ _MODEL_LOCK # _GENERATE_LOCK
    /\ LockWaiting # {}


\* C29 -- With every generate call terminating, every handler thread that
\* waits for the call-serializing lock eventually acquires it and writes its
\* response, also when other handlers keep arriving: no waiting request is
\* overtaken forever.
C29_WaiterEventuallyServed ==
    \A c \in Conns :
        /\ (cpc[c] = "gen_lock") ~> (cpc[c] = "generate")
        /\ (cpc[c] = "gen_lock") ~> (Len(cwire[c]) = 1)

====
